---- MODULE Spec2Model ----
(***************************************************************************)
(* A model of clippy's loop and match lints (clippy_lints/src/loops.rs,    *)
(* clippy_lints/src/matches.rs).  A lint pass is handed one HIR expression *)
(* (`expr`), runs its detectors on it and emits diagnostics to the sink    *)
(* (`diags`).  Each detector has a specification of its own, whose Init    *)
(* draws the expression from a bounded set of HIR shapes.                  *)
(***************************************************************************)
EXTENDS Integers, Sequences, FiniteSets, Bags, TLC

VARIABLES
    expr,       \* the HIR node handed to check_expr (the detector's input)
    pc,         \* position of the lint pass on this node
    diags,      \* the diagnostic sink: sequence of emitted diagnostics
    visitor,    \* the IncrementVisitor of check_for_loop_explicit_counter
    iter,       \* the candidates visitor.states.iter() has yet to yield
    visitor2,   \* the InitializeVisitor of the candidate at hand
    runs        \* the diagnostics of the completed earlier runs over the tree

vars == <<expr, pc, diags, visitor, iter, visitor2, runs>>

None == "None"

\* No InitializeVisitor has been created yet.
NoInitializeVisitor ==
    [var_id |-> 0, state |-> "Initial", name |-> None, depth |-> 0, past_loop |-> FALSE, pos |-> 0]

\* Outside check_for_loop_explicit_counter no visitor of it exists.
NoVisitors == visitor = None /\ iter = {} /\ visitor2 = NoInitializeVisitor /\ runs = <<>>

(***************************************************************************)
(* Bounds of the model                                                     *)
(***************************************************************************)
MaxVal  == 2        \* integer constants range over 0..MaxVal
MaxArms == 3        \* a match has at most MaxArms arms
MaxUses == 3        \* a loop body refers to the induction variable at most MaxUses times
MaxBody == 3        \* a loop body under EXPLICIT_COUNTER_LOOP has at most MaxBody nodes
MaxStmts == 1       \* the block of an and_then argument has at most MaxStmts statements
MaxWalk == 2        \* at most MaxWalk expressions in the body of a while-let and after it

Values == 0..MaxVal

(***************************************************************************)
(* matches.rs: MATCH_OVERLAPPING_ARM                                       *)
(***************************************************************************)

\* Outcome of eval_const_expr_partial on a pattern endpoint: Ok(Integral(v)),
\* Ok(some other ConstVal) or Err.
IntegralVal(v) == [fold |-> "Integral", v |-> v]
NonIntegralVal == [fold |-> "Other", v |-> 0]
EvalErr        == [fold |-> "Err", v |-> 0]

ConstEvals == {IntegralVal(v) : v \in Values} \cup {NonIntegralVal, EvalErr}

\* PatKind::Range(lhs, rhs), PatKind::Lit(value), and any other pattern.
\* rustc rejects a constant range whose lower bound exceeds its upper bound
\* before lints run, so such ranges are no inputs.
PatRange(l, r) == [kind |-> "Range", lhs |-> l, rhs |-> r]
PatLit(v)      == [kind |-> "Lit", lhs |-> v, rhs |-> v]
PatWild        == [kind |-> "Wild", lhs |-> EvalErr, rhs |-> EvalErr]

\* An arm: its patterns (alternatives `p | q`) and whether it carries a guard.
Arm(pats, guard) == [pats |-> pats, guard |-> guard]

IntRangePats ==
    {PatRange(IntegralVal(l), IntegralVal(r)) : l, r \in Values} \cup
    {PatLit(IntegralVal(v)) : v \in Values}

\* rustc rejects a constant range pattern whose lower bound exceeds its upper
\* bound before lints run, so such a range is no input.
WellFormedPat(p) ==
    (p.kind = "Range" /\ p.lhs.fold = "Integral" /\ p.rhs.fold = "Integral")
        => p.lhs.v <= p.rhs.v

\* Patterns with an endpoint that does not fold to an integral: each endpoint
\* in turn fails to evaluate or evaluates to another kind of constant.
UnfoldablePats ==
    {PatRange(l, IntegralVal(0)) : l \in {NonIntegralVal, EvalErr}} \cup
    {PatRange(IntegralVal(0), r) : r \in {NonIntegralVal, EvalErr}} \cup
    {PatLit(v) : v \in {NonIntegralVal, EvalErr}} \cup {PatWild}

\* The arms a match is drawn from: guard-free arms with one integral range or
\* literal, guard-free arms with one other pattern, guard-free arms with two
\* literal alternatives, and guarded arms with an integral range.
Arms ==
    {Arm(<<p>>, FALSE) : p \in {q \in IntRangePats : WellFormedPat(q)} \cup UnfoldablePats} \cup
    {Arm(<<PatLit(IntegralVal(0)), PatLit(IntegralVal(v))>>, FALSE) : v \in {0, MaxVal}} \cup
    {Arm(<<PatRange(IntegralVal(0), IntegralVal(v))>>, TRUE) : v \in {0, MaxVal}}

\* ExprMatch(ex, arms, MatchSource::Normal): whether the scrutinee's type is
\* integral, and the arms.
MatchExpr(integral, arms) == [node |-> "ExprMatch", integral |-> integral, arms |-> arms]

\* The sequences of n arms.
ArmSeqs(n) == [1..n -> Arms]

\* The matches handed to the pass: up to MaxArms arms on an integral
\* scrutinee, up to two on any other.
MaxArmsOf(integral) == IF integral THEN MaxArms ELSE 2

\* ArmPats without the `guard: None` test.
ArmPatsAnyGuard(arm) == arm.pats

\* The patterns all_ranges looks at in one arm: all of them when the arm has
\* no guard (`Arm { ref pats, guard: None, .. }`), none otherwise.
ArmPats(arm) == IF arm.guard THEN <<>> ELSE arm.pats

\* The filter_map closure of all_ranges on one pattern: a range whose two
\* endpoints const-evaluate, or a literal that does (the one-point range),
\* spanned by the pattern; nothing otherwise.
PatSpannedRange(pat, span) ==
    IF pat.kind = "Range" /\ pat.lhs.fold # "Err" /\ pat.rhs.fold # "Err"
    THEN <<[span |-> span, node |-> <<pat.lhs, pat.rhs>>]>>
    ELSE IF pat.kind = "Lit" /\ pat.lhs.fold # "Err"
    THEN <<[span |-> span, node |-> <<pat.lhs, pat.lhs>>]>>
    ELSE <<>>

\* all_ranges: flat_map over the arms, in order; span <<i, j>> is the j-th
\* pattern of the i-th arm.
RECURSIVE all_ranges_from(_, _, _)
all_ranges_from(arms, i, j) ==
    IF i > Len(arms) THEN <<>>
    ELSE IF j > Len(ArmPats(arms[i])) THEN all_ranges_from(arms, i + 1, 1)
    ELSE PatSpannedRange(ArmPats(arms[i])[j], <<i, j>>) \o all_ranges_from(arms, i, j + 1)

all_ranges(arms) == all_ranges_from(arms, 1, 1)

\* type_ranges: keep the ranges whose two endpoints are ConstVal::Integral.
RECURSIVE type_ranges(_)
type_ranges(ranges) ==
    IF ranges = <<>> THEN <<>>
    ELSE LET range == Head(ranges)
         IN  IF range.node[1].fold = "Integral" /\ range.node[2].fold = "Integral"
             THEN <<[span |-> range.span, node |-> <<range.node[1].v, range.node[2].v>>]>>
                      \o type_ranges(Tail(ranges))
             ELSE type_ranges(Tail(ranges))

\* Kind::Start(value, range) / Kind::End(value, range); r is the index of the
\* referenced range in `ranges`.
KindStart(t, r) == [kind |-> "Start", value |-> t, r |-> r]
KindEnd(t, r)   == [kind |-> "End", value |-> t, r |-> r]

\* The push loop: Start then End of every range, in order.
RECURSIVE PushValues(_, _)
PushValues(ranges, i) ==
    IF i > Len(ranges) THEN <<>>
    ELSE <<KindStart(ranges[i].node[1], i), KindEnd(ranges[i].node[2], i)>>
             \o PushValues(ranges, i + 1)

\* An order on Kind under which the sort puts equal values in reverse.
KindLt(a, b) == a.value < b.value

\* Ord for Kind compares value() only.
KindLe(a, b) == a.value <= b.value

\* values.sort(): a stable sort under KindLe (insertion keeps equal keys in order).
RECURSIVE InsertSorted(_, _)
InsertSorted(sorted, e) ==
    IF sorted = <<>> THEN <<e>>
    ELSE IF KindLe(Head(sorted), e) THEN <<Head(sorted)>> \o InsertSorted(Tail(sorted), e)
    ELSE <<e>> \o sorted

RECURSIVE SortValues(_)
SortValues(values) ==
    IF values = <<>> THEN <<>>
    ELSE InsertSorted(SortValues(SubSeq(values, 1, Len(values) - 1)), values[Len(values)])

\* Option<(&SpannedRange, &SpannedRange)>: None is the empty tuple.
NoPair == <<>>

\* SweepPair with the End/Start arm lacking its `if a != b` guard's negation:
\* every End followed by a Start passes as non-overlapping.
SweepPairNoBoundary(ranges, a, b) ==
    IF a.kind = "Start" /\ b.kind = "End"
    THEN IF ranges[a.r].node # ranges[b.r].node THEN <<ranges[a.r], ranges[b.r]>> ELSE NoPair
    ELSE IF a.kind = "End" /\ b.kind = "Start" THEN NoPair
    ELSE <<ranges[a.r], ranges[b.r]>>

\* SweepPair that lets a Start followed by a Start pass as non-overlapping.
SweepPairStartStart(ranges, a, b) ==
    IF a.kind = "Start" /\ b.kind = "End"
    THEN IF ranges[a.r].node # ranges[b.r].node THEN <<ranges[a.r], ranges[b.r]>> ELSE NoPair
    ELSE IF a.kind = "End" /\ b.kind = "Start" /\ a.value # b.value THEN NoPair
    ELSE IF a.kind = "Start" /\ b.kind = "Start" THEN NoPair
    ELSE <<ranges[a.r], ranges[b.r]>>

\* SweepPair whose Start/End arm has no `ra.node != rb.node` guard.
SweepPairSameRange(ranges, a, b) ==
    IF a.kind = "End" /\ b.kind = "Start" /\ a.value # b.value THEN NoPair
    ELSE <<ranges[a.r], ranges[b.r]>>

\* The match on one adjacent pair (a, b) of sorted events: the pair of ranges
\* to return, or NoPair to go on.
SweepPair(ranges, a, b) ==
    IF a.kind = "Start" /\ b.kind = "End"
    THEN IF ranges[a.r].node # ranges[b.r].node THEN <<ranges[a.r], ranges[b.r]>> ELSE NoPair
    ELSE IF a.kind = "End" /\ b.kind = "Start" /\ a.value # b.value THEN NoPair
    ELSE <<ranges[a.r], ranges[b.r]>>

RECURSIVE Sweep(_, _, _)
Sweep(ranges, values, i) ==
    IF i + 1 > Len(values) THEN NoPair
    ELSE LET hit == SweepPair(ranges, values[i], values[i + 1])
         IN  IF Len(hit) = 2 THEN hit ELSE Sweep(ranges, values, i + 1)

overlapping(ranges) == Sweep(ranges, SortValues(PushValues(ranges, 1)), 1)

\* check_overlapping_arms: the diagnostics it emits for a match.
OverlapDiags(e) ==
    IF Len(e.arms) >= 2 /\ e.integral
    THEN LET ranges == type_ranges(all_ranges(e.arms))
             found  == overlapping(ranges)
         IN  IF ranges # <<>> /\ Len(found) = 2
             THEN <<[lint |-> "MATCH_OVERLAPPING_ARM",
                     span |-> found[1].span,
                     note |-> found[2].span]>>
             ELSE <<>>
    ELSE <<>>

HasLint(lint) == \E k \in 1..Len(diags) : diags[k].lint = lint

\* MatchPass::check_expr on a normal match: check_overlapping_arms.
check_overlapping_arms ==
    /\ pc = "check_expr"
    /\ diags' = diags \o OverlapDiags(expr)
    /\ pc' = "done"
    /\ UNCHANGED <<expr, visitor, iter, visitor2, runs>>

\* The pass has no fields; the sink is empty; the walker is at a match.
InitOverlap ==
    /\ \E integral \in BOOLEAN : \E n \in 0..MaxArmsOf(integral) : \E arms \in ArmSeqs(n) :
        expr = MatchExpr(integral, arms)
    /\ pc = "check_expr"
    /\ diags = <<>>
    /\ NoVisitors

NextOverlap == check_overlapping_arms

SpecOverlap == InitOverlap /\ [][NextOverlap]_vars

\* overlapping() as a function of any slice of ranges: SpannedRange { span,
\* node: (start, end) }, the span of the i-th range being <<i, 1>>.
SpannedRange(i, lo, hi) == [span |-> <<i, 1>>, node |-> <<lo, hi>>]

\* A call of overlapping(&ranges): the result is kept beside the argument.
call_overlapping ==
    /\ pc = "call"
    /\ diags' = <<[found |-> overlapping(expr.ranges)]>>
    /\ pc' = "done"
    /\ UNCHANGED <<expr, visitor, iter, visitor2, runs>>

\* Any slice of up to MaxArms ranges over the values, start <= end or not.
InitOverlapping ==
    /\ \E n \in 0..MaxArms : \E nodes \in [1..n -> Values \X Values] :
        expr = [node |-> "overlapping",
                ranges |-> [i \in 1..n |-> SpannedRange(i, nodes[i][1], nodes[i][2])]]
    /\ pc = "call"
    /\ diags = <<>>
    /\ NoVisitors

NextOverlapping == call_overlapping

SpecOverlapping == InitOverlapping /\ [][NextOverlapping]_vars

(***************************************************************************)
(* loops.rs: the for-loop detectors.  higher::for_loop(expr) yields the    *)
(* pattern, the iterated argument and the body; higher::range(arg) yields  *)
(* Range { start, end, limits } when the argument is a range literal.      *)
(***************************************************************************)

\* The bound expressions of a range: an integer literal, a constant expression
\* that is no literal (a named const, `1 + 1`), a float literal, a variable
\* and `<name>.len()`; text is the source snippet.
ExprLit(n)     == [e |-> "Lit", v |-> n, name |-> "", text |-> <<"lit", n>>]
ExprConst(n)   == [e |-> "Const", v |-> n, name |-> "", text |-> <<"const", n>>]
ExprFloat      == [e |-> "Float", v |-> 0, name |-> "", text |-> <<"1.5">>]
ExprVar(x)     == [e |-> "Var", v |-> 0, name |-> x, text |-> <<x>>]
ExprLenCall(x) == [e |-> "Len", v |-> 0, name |-> x, text |-> <<x, ".len()">>]
NoExpr         == [e |-> "None", v |-> 0, name |-> "", text |-> <<>>]
\* `m::x.len()`: a call of len on a path of two segments.
ExprLenPath(x) == [e |-> "LenPath", v |-> 0, name |-> x, text |-> <<"m::", x, ".len()">>]

\* eval_const_expr_partial(cx.tcx, e, ExprTypeChecked, None)
EvalConst(e) ==
    IF e.e \in {"Lit", "Const"} THEN IntegralVal(e.v)
    ELSE IF e.e = "Float" THEN NonIntegralVal
    ELSE EvalErr

\* higher::Range { start, end, limits }; NoExpr is an absent bound.
Range(start, end, limits) == [range |-> TRUE, start |-> start, end |-> end, limits |-> limits]
\* An iterated argument that is no range literal.
NotARange == [range |-> FALSE, start |-> NoExpr, end |-> NoExpr, limits |-> "HalfOpen"]

RangeLimits == {"HalfOpen", "Closed"}

(***************************************************************************)
(* loops.rs: REVERSE_RANGE_LOOP                                            *)
(***************************************************************************)

ReverseBounds ==
    {ExprLit(n) : n \in Values} \cup {ExprConst(n) : n \in Values} \cup
    {ExprFloat, ExprVar("n"), NoExpr}

ReverseLoop(arg) == [node |-> "ForLoop", arg |-> arg]

\* check_for_loop_reverse_range with `eq` alone deciding the second branch.
ReverseRangeDiagsEqAnyLimits(e) ==
    IF e.arg.range /\ e.arg.start # NoExpr /\ e.arg.end # NoExpr
       /\ EvalConst(e.arg.start).fold # "Err" /\ EvalConst(e.arg.end).fold # "Err"
    THEN LET start_idx == EvalConst(e.arg.start)
             end_idx   == EvalConst(e.arg.end)
             both      == start_idx.fold = "Integral" /\ end_idx.fold = "Integral"
             sup       == both /\ start_idx.v > end_idx.v
             eq        == both /\ start_idx.v = end_idx.v
         IN  IF sup
             THEN <<[lint |-> "REVERSE_RANGE_LOOP",
                     sugg |-> <<"(">> \o e.arg.end.text
                              \o <<IF e.arg.limits = "Closed" THEN "..." ELSE "..">>
                              \o e.arg.start.text \o <<").rev()">>]>>
             ELSE IF eq
             THEN <<[lint |-> "REVERSE_RANGE_LOOP", sugg |-> <<>>]>>
             ELSE <<>>
    ELSE <<>>

\* check_for_loop_reverse_range: the diagnostics it emits for a for-loop.
ReverseRangeDiags(e) ==
    IF e.arg.range /\ e.arg.start # NoExpr /\ e.arg.end # NoExpr
       /\ EvalConst(e.arg.start).fold # "Err" /\ EvalConst(e.arg.end).fold # "Err"
    THEN LET start_idx == EvalConst(e.arg.start)
             end_idx   == EvalConst(e.arg.end)
             both      == start_idx.fold = "Integral" /\ end_idx.fold = "Integral"
             sup       == both /\ start_idx.v > end_idx.v
             eq        == both /\ start_idx.v = end_idx.v
         IN  IF sup
             THEN <<[lint |-> "REVERSE_RANGE_LOOP",
                     sugg |-> <<"(">> \o e.arg.end.text
                              \o <<IF e.arg.limits = "Closed" THEN "..." ELSE "..">>
                              \o e.arg.start.text \o <<").rev()">>]>>
             ELSE IF eq /\ e.arg.limits # "Closed"
             THEN <<[lint |-> "REVERSE_RANGE_LOOP", sugg |-> <<>>]>>
             ELSE <<>>
    ELSE <<>>

check_for_loop_reverse_range ==
    /\ pc = "check_expr"
    /\ diags' = diags \o ReverseRangeDiags(expr)
    /\ pc' = "done"
    /\ UNCHANGED <<expr, visitor, iter, visitor2, runs>>

InitReverseRange ==
    /\ \/ \E start, end \in ReverseBounds : \E limits \in RangeLimits :
            expr = ReverseLoop(Range(start, end, limits))
       \/ expr = ReverseLoop(NotARange)
    /\ pc = "check_expr"
    /\ diags = <<>>
    /\ NoVisitors

NextReverseRange == check_for_loop_reverse_range

SpecReverseRange == InitReverseRange /\ [][NextReverseRange]_vars

(***************************************************************************)
(* Claims about REVERSE_RANGE_LOOP                                         *)
(***************************************************************************)

FoldsToIntegral(e) == e.e \in {"Lit", "Const"}

\* C2: over a two-sided range the lint fires if and only if both bounds fold
\* to integrals s and e with s > e, or with s = e on a half-open range.
C2_ReverseRangeIff ==
    (pc = "done" /\ expr.arg.range /\ expr.arg.start # NoExpr /\ expr.arg.end # NoExpr) =>
        (HasLint("REVERSE_RANGE_LOOP") <=>
            /\ FoldsToIntegral(expr.arg.start) /\ FoldsToIntegral(expr.arg.end)
            /\ \/ expr.arg.start.v > expr.arg.end.v
               \/ expr.arg.start.v = expr.arg.end.v /\ expr.arg.limits = "HalfOpen")

\* Witness of C2: the inclusive range 2...2 has run and is not flagged.
C2_Witness ==
    /\ pc = "done"
    /\ expr.arg = Range(ExprLit(2), ExprLit(2), "Closed")
    /\ ~HasLint("REVERSE_RANGE_LOOP")

(***************************************************************************)
(* loops.rs: NEEDLESS_RANGE_LOOP                                           *)
(***************************************************************************)

\* The code extents around the loop, as region_maps holds them: 1 is the block
\* enclosing the loop, 2 the extent of the loop pattern's binding
\* (var_scope(pat.id)), 3 the loop body, 4 a block inside the body.
\* ExtentParent[x] = 0: x has no enclosing scope.
ExtentParent == <<0, 1, 2, 3>>
Extents      == DOMAIN ExtentParent
PatExtent    == 2
NoExtent     == 0       \* Option<CodeExtent>::None (statics and consts)

\* region_maps.is_subscope_of(subscope, superscope)
RECURSIVE is_subscope_of(_, _)
is_subscope_of(sub, sup) ==
    IF sup = sub THEN TRUE
    ELSE IF ExtentParent[sub] = 0 THEN FALSE
    ELSE is_subscope_of(ExtentParent[sub], sup)

\* What a container path of an index expression resolves to: the declaration
\* (id), its name, the Def kind and the extent of a local (var_scope).
Container(id, name, def, extent) == [id |-> id, name |-> name, def |-> def, extent |-> extent]

Containers ==
    { Container(1, "v", "Local", 1),     \* `v`, declared before the loop
      Container(2, "v", "Local", 4),     \* another `v`, declared in a block of the body
      Container(3, "w", "Upvar", 1),     \* `w`, declared before the loop, used in a closure
      Container(4, "u", "Local", 3),     \* `u`, declared in the loop body
      Container(5, "S", "Static", NoExtent),
      Container(6, "C", "Const", NoExtent),
      Container(7, "f", "Fn", NoExtent) }   \* a path with any other Def

\* A reference to the induction variable in the body, by its parent: the index
\* of `<path>[i]` with a single-segment path, or anything else (an operand, an
\* argument, the index of `self.v[i]`).
UseIndex(c) == [use |-> "index", c |-> c]
UseOther    == [use |-> "other", c |-> Container(0, "", "None", NoExtent)]

Uses == {UseIndex(c) : c \in Containers} \cup {UseOther}

\* PatKind::Binding(_, ident, _) or any other loop pattern.
PatBinding(name) == [kind |-> "Binding", name |-> name]
PatTuple         == [kind |-> "Tuple", name |-> ""]

RangeLoop(pat, arg, uses) == [node |-> "ForLoop", pat |-> pat, arg |-> arg, uses |-> uses]

\* VarVisitor { indexed: HashMap<Name, Option<CodeExtent>>, nonindex }
NewVarVisitor == [indexed |-> <<>>, nonindex |-> FALSE]

\* HashMap::insert: the value of an existing key is replaced.
MapInsert(map, k, v) == [x \in DOMAIN map \cup {k} |-> IF x = k THEN v ELSE map[x]]

\* VarVisitor::visit_expr on a path that resolves to the induction variable.
VarVisitExpr(var_visitor, u) ==
    IF u.use = "index" /\ u.c.def \in {"Local", "Upvar"}
    THEN [var_visitor EXCEPT !.indexed = MapInsert(@, u.c.name, u.c.extent)]
    ELSE IF u.use = "index" /\ u.c.def \in {"Static", "Const"}
    THEN [var_visitor EXCEPT !.indexed = MapInsert(@, u.c.name, NoExtent)]
    ELSE [var_visitor EXCEPT !.nonindex = TRUE]

\* walk_expr(&mut visitor, body): the references in traversal order.
RECURSIVE WalkUses(_, _, _)
WalkUses(var_visitor, uses, k) ==
    IF k > Len(uses) THEN var_visitor
    ELSE WalkUses(VarVisitExpr(var_visitor, uses[k]), uses, k + 1)

is_integer_literal(e, value) == e.e = "Lit" /\ e.v = value

\* is_len_call without the comparison of the name with var.
is_len_call_any(e, var) == e.e = "Len"

is_len_call(e, var) == e.e = "Len" /\ e.name = var

\* The `.skip(..)` and `.take(..)` parts of the suggestion.
SkipText(start) ==
    IF is_integer_literal(start, 0) THEN <<>>
    ELSE <<".skip(">> \o start.text \o <<")">>

TakeText(end, limits, indexed) ==
    IF end # NoExpr
    THEN IF is_len_call(end, indexed) THEN <<>>
         ELSE IF limits = "Closed" THEN <<".take(">> \o end.text \o <<" + 1", ")">>
         ELSE <<".take(">> \o end.text \o <<")">>
    ELSE <<>>

\* The replacement of the iterated argument when the variable only indexes,
\* testing starts_at_zero alone.
PlainReplAtZero(start, take, skip, indexed) ==
    IF is_integer_literal(start, 0) THEN <<"&", indexed>>
    ELSE <<indexed, ".iter()">> \o take \o skip

\* The replacement of the iterated argument with the skip put before the take.
PlainReplSkipFirst(start, take, skip, indexed) ==
    IF is_integer_literal(start, 0) /\ take = <<>> THEN <<"&", indexed>>
    ELSE <<indexed, ".iter()">> \o skip \o take

\* The replacement of the iterated argument when the variable only indexes.
PlainRepl(start, take, skip, indexed) ==
    IF is_integer_literal(start, 0) /\ take = <<>> THEN <<"&", indexed>>
    ELSE <<indexed, ".iter()">> \o take \o skip

\* The extent test of check_for_loop_range with the arguments of
\* is_subscope_of exchanged.
DeclaredInLoopSwapped(indexed_extent) ==
    indexed_extent # NoExtent /\ is_subscope_of(PatExtent, indexed_extent)

\* `if let Some(indexed_extent) = indexed_extent { .. is_subscope_of(..) }`
DeclaredInLoop(indexed_extent) ==
    indexed_extent # NoExtent /\ is_subscope_of(indexed_extent, PatExtent)

\* check_for_loop_range: the diagnostics it emits for a for-loop.
RangeIndexDiags(e) ==
    IF e.arg.range /\ e.arg.start # NoExpr /\ e.pat.kind = "Binding"
    THEN LET var_visitor == WalkUses(NewVarVisitor, e.uses, 1)
         IN  IF Cardinality(DOMAIN var_visitor.indexed) = 1
             THEN LET indexed        == CHOOSE k \in DOMAIN var_visitor.indexed : TRUE
                      indexed_extent == var_visitor.indexed[indexed]
                      skip == SkipText(e.arg.start)
                      take == TakeText(e.arg.end, e.arg.limits, indexed)
                  IN  IF DeclaredInLoop(indexed_extent) THEN <<>>
                      ELSE IF var_visitor.nonindex
                      THEN <<[lint |-> "NEEDLESS_RANGE_LOOP",
                              indexed |-> indexed,
                              pat_sugg |-> <<"(", e.pat.name, ", <item>)">>,
                              arg_sugg |-> <<indexed, ".iter().enumerate()">> \o take \o skip]>>
                      ELSE <<[lint |-> "NEEDLESS_RANGE_LOOP",
                              indexed |-> indexed,
                              pat_sugg |-> <<"<item>">>,
                              arg_sugg |-> PlainRepl(e.arg.start, take, skip, indexed)]>>
             ELSE <<>>
    ELSE <<>>

check_for_loop_range ==
    /\ pc = "check_expr"
    /\ diags' = diags \o RangeIndexDiags(expr)
    /\ pc' = "done"
    /\ UNCHANGED <<expr, visitor, iter, visitor2, runs>>

\* The ranges a loop iterates: the start is `0`, `1`, a variable or absent; the
\* end is absent, `v.len()`, `w.len()` or a variable.
IndexRanges ==
    {Range(start, end, limits) :
        start \in {ExprLit(0), ExprLit(1), ExprConst(0), ExprVar("n"), NoExpr},
        end \in {NoExpr, ExprLenCall("v"), ExprLenCall("w"), ExprLenPath("v"), ExprVar("n"), ExprLit(1)},
        limits \in RangeLimits}

InitRangeIndex ==
    /\ \E pat \in {PatBinding("i"), PatTuple} : \E arg \in IndexRanges :
       \E n \in 0..MaxUses : \E uses \in [1..n -> Uses] :
            expr = RangeLoop(pat, arg, uses)
    /\ pc = "check_expr"
    /\ diags = <<>>
    /\ NoVisitors

NextRangeIndex == check_for_loop_range

SpecRangeIndex == InitRangeIndex /\ [][NextRangeIndex]_vars

(***************************************************************************)
(* Claims about NEEDLESS_RANGE_LOOP                                        *)
(***************************************************************************)

\* The detector applies: a range with a start, iterated with a single name.
RangeIndexApplies ==
    pc = "done" /\ expr.arg.range /\ expr.arg.start # NoExpr /\ expr.pat.kind = "Binding"

\* A reference that indexes a container: a single-segment path to a local, an
\* upvar, a static or a const.
IndexesContainer(u) == u.use = "index" /\ u.c.def \in {"Local", "Upvar", "Static", "Const"}

\* The declarations the references index.
IndexedDecls(e) == {e.uses[k].c.id : k \in {j \in 1..Len(e.uses) : IndexesContainer(e.uses[j])}}

\* C4 (the claim as stated): the lint fires only when the references index
\* exactly one distinct container, containers being told apart by declaration.
C4_OneDeclarationIndexed ==
    pc = "done" /\ HasLint("NEEDLESS_RANGE_LOOP") => Cardinality(IndexedDecls(expr)) = 1

\* The extents that are sub-extents of the induction binding's extent.
LoopExtents == {PatExtent, 3, 4}

\* C7: when the references index one declaration, there is no finding if it is
\* a local declared inside the loop; a container declared outside the loop, a
\* static and a const are not excluded and are flagged.
C7_DeclaredInsideLoopExcluded ==
    RangeIndexApplies =>
        \A c \in Containers :
            IndexedDecls(expr) = {c.id} =>
                (HasLint("NEEDLESS_RANGE_LOOP") <=>
                    ~(c.def \in {"Local", "Upvar"} /\ c.extent \in LoopExtents))

\* Witness of C7: only `u`, declared in the loop body, is indexed; no finding.
C7_Witness ==
    /\ RangeIndexApplies
    /\ IndexedDecls(expr) = {4}
    /\ ~HasLint("NEEDLESS_RANGE_LOOP")

\* The suggestion is the enumerate form.
IsEnumerateForm(d) ==
    /\ d.pat_sugg = <<"(", expr.pat.name, ", <item>)">>
    /\ Len(d.arg_sugg) >= 2
    /\ SubSeq(d.arg_sugg, 1, 2) = <<d.indexed, ".iter().enumerate()">>

\* The suggestion is `<container>.iter()` followed by a take and/or a skip.
IsIterForm(d) ==
    /\ d.pat_sugg = <<"<item>">>
    /\ Len(d.arg_sugg) > 2
    /\ SubSeq(d.arg_sugg, 1, 2) = <<d.indexed, ".iter()">>
    /\ d.arg_sugg[3] \in {".take(", ".skip("}

\* No take is needed: the range has no end, or it ends at `<container>.len()`.
NoTakeNeeded(d) ==
    expr.arg.end = NoExpr \/ (expr.arg.end.e = "Len" /\ expr.arg.end.name = d.indexed)

\* C5: a finding suggests the enumerate form if and only if some reference to
\* the induction variable does not index a container; otherwise it suggests
\* `&<container>` exactly when the start is the literal 0 and no take is
\* needed, and `<container>.iter()` with take/skip if not.
C5_SuggestionForm ==
    RangeIndexApplies =>
        \A k \in 1..Len(diags) :
            diags[k].lint = "NEEDLESS_RANGE_LOOP" =>
                LET d        == diags[k]
                    nonindex == \E j \in 1..Len(expr.uses) : ~IndexesContainer(expr.uses[j])
                    atZero   == expr.arg.start.e = "Lit" /\ expr.arg.start.v = 0
                IN  /\ \A j \in 1..Len(expr.uses) :
                            IndexesContainer(expr.uses[j]) => expr.uses[j].c.name = d.indexed
                    /\ IsEnumerateForm(d) <=> nonindex
                    /\ ~nonindex =>
                        /\ d.arg_sugg = <<"&", d.indexed>> <=> (atZero /\ NoTakeNeeded(d))
                        /\ ~(atZero /\ NoTakeNeeded(d)) => IsIterForm(d)

\* Witness of C5: `for i in 0..n { v[i] }` is flagged with `v.iter().take(n)`.
C5_Witness ==
    /\ RangeIndexApplies
    /\ expr.arg = Range(ExprLit(0), ExprVar("n"), "HalfOpen")
    /\ expr.uses = <<UseIndex(Container(1, "v", "Local", 1))>>
    /\ Len(diags) = 1
    /\ diags[1].arg_sugg = <<"v", ".iter()", ".take(", "n", ")">>

\* A part of the suggestion is present: its opening text occurs in it.
HasPart(sugg, part) == \E k \in 1..Len(sugg) : ToString(sugg[k]) = ToString(part)

\* The suggestion ends in the given take and skip parts.
EndsIn(sugg, parts) ==
    /\ Len(sugg) >= Len(parts)
    /\ SubSeq(sugg, Len(sugg) - Len(parts) + 1, Len(sugg)) = parts

\* C23: in a finding's suggestion `.skip(<start text>)` is present iff the
\* start is not the literal 0; `.take(..)` is absent iff the range has no end
\* or ends at `<container>.len()` with the container's single-segment name;
\* otherwise the take is `.take(<end text>)` for a half-open range and
\* `.take(<end text> + 1)` for an inclusive one, on the text of the bounds.
C23_SkipAndTake ==
    RangeIndexApplies =>
        \A k \in 1..Len(diags) :
            diags[k].lint = "NEEDLESS_RANGE_LOOP" =>
                LET d      == diags[k]
                    start  == expr.arg.start
                    end    == expr.arg.end
                    atZero == start.e = "Lit" /\ start.v = 0
                    skip   == IF atZero THEN <<>> ELSE <<".skip(">> \o start.text \o <<")">>
                    take   == IF NoTakeNeeded(d) THEN <<>>
                              ELSE IF expr.arg.limits = "HalfOpen"
                              THEN <<".take(">> \o end.text \o <<")">>
                              ELSE <<".take(">> \o end.text \o <<" + 1", ")">>
                IN  /\ HasPart(d.arg_sugg, ".skip(") <=> ~atZero
                    /\ ~HasPart(d.arg_sugg, ".take(") <=> NoTakeNeeded(d)
                    /\ EndsIn(d.arg_sugg, take \o skip)
                    /\ Len(d.arg_sugg) = 2 + Len(take \o skip)

\* Witness of C23: `for i in ZERO...1 { v[i] }` with a constant ZERO = 0 is
\* flagged with `v.iter().take(1 + 1).skip(ZERO)`.
C23_Witness ==
    /\ RangeIndexApplies
    /\ expr.arg = Range(ExprConst(0), ExprLit(1), "Closed")
    /\ Len(diags) = 1
    /\ diags[1].arg_sugg = <<"v", ".iter()", ".take(", "lit", 1, " + 1", ")", ".skip(", "const", 0, ")">>

\* The values a run gives to what the bounds of the range mention: the
\* variable `n`, the length of the indexed container, and the length of any
\* other container, `m::v` included.
Envs == [n : Values, len : 0..(MaxVal + 1), other : Values]

\* A token of a suggestion is the given text.
Tok(t, text) == ToString(t) = ToString(text)

\* The length of the container named x when the finding indexes `indexed`.
LenOf(x, indexed, env) == IF x = indexed THEN env.len ELSE env.other

\* The value of a bound of the range, from the expression.
EvalBound(e, indexed, env) ==
    CASE e.e \in {"Lit", "Const"} -> e.v
      [] e.e = "Var"     -> env.n
      [] e.e = "Len"     -> LenOf(e.name, indexed, env)
      [] e.e = "LenPath" -> env.other
      [] OTHER           -> 0

\* The value of the text of an argument in the suggestion, read as Rust.
RECURSIVE EvalText(_, _, _)
EvalText(text, indexed, env) ==
    IF Tok(text[Len(text)], " + 1") THEN EvalText(SubSeq(text, 1, Len(text) - 1), indexed, env) + 1
    ELSE IF Tok(text[1], "lit") \/ Tok(text[1], "const") THEN text[2]
    ELSE IF Tok(text[1], "m::") THEN env.other
    ELSE IF Len(text) = 2 /\ Tok(text[2], ".len()") THEN LenOf(text[1], indexed, env)
    ELSE env.n

\* Iterator::take, Iterator::skip and Iterator::enumerate on the sequence of
\* the items an iterator yields; slice::iter on the container named x.
Take(items, n) == SubSeq(items, 1, IF n < Len(items) THEN n ELSE Len(items))
Skip(items, n) == SubSeq(items, (IF n < Len(items) THEN n ELSE Len(items)) + 1, Len(items))
Enumerate(items) == [k \in 1..Len(items) |-> <<k - 1, items[k]>>]
Iter(x, indexed, env) == [k \in 1..LenOf(x, indexed, env) |-> <<x, k - 1>>]

\* The position of the `)` that closes the call opened at position k.
Close(sugg, k) == CHOOSE j \in (k + 1)..Len(sugg) :
                    Tok(sugg[j], ")") /\ \A i \in (k + 1)..(j - 1) : ~Tok(sugg[i], ")")

\* The items the suggested expression yields: the adaptors from position k on
\* applied, in the order written, to items.
RECURSIVE EvalAdaptors(_, _, _, _, _)
EvalAdaptors(sugg, k, items, indexed, env) ==
    IF k > Len(sugg) THEN items
    ELSE LET j == Close(sugg, k)
             n == EvalText(SubSeq(sugg, k + 1, j - 1), indexed, env)
         IN  IF Tok(sugg[k], ".take(")
             THEN EvalAdaptors(sugg, j + 1, Take(items, n), indexed, env)
             ELSE EvalAdaptors(sugg, j + 1, Skip(items, n), indexed, env)

\* `&v`, `v.iter()..` or `v.iter().enumerate()..`
EvalChain(sugg, indexed, env) ==
    IF Tok(sugg[1], "&") THEN Iter(sugg[2], indexed, env)
    ELSE IF Tok(sugg[2], ".iter().enumerate()")
    THEN EvalAdaptors(sugg, 3, Enumerate(Iter(sugg[1], indexed, env)), indexed, env)
    ELSE EvalAdaptors(sugg, 3, Iter(sugg[1], indexed, env), indexed, env)

\* What the loop `for i in s..e { .. indexed[i] .. }` visits: the elements
\* alone, or each with the value of i.
LoopVisits(arg, indexed, with_index, env) ==
    LET s  == EvalBound(arg.start, indexed, env)
        e  == EvalBound(arg.end, indexed, env)
        hi == IF arg.limits = "Closed" THEN e + 1 ELSE e
    IN  [k \in 1..(hi - s) |-> IF with_index THEN <<s + k - 1, <<indexed, s + k - 1>>>>
                                ELSE <<indexed, s + k - 1>>]

\* The range stays inside the container: 0 <= s <= e <= len for s..e, and
\* e < len for s...e.
InBounds(arg, indexed, env) ==
    LET s == EvalBound(arg.start, indexed, env)
        e == EvalBound(arg.end, indexed, env)
    IN  IF arg.limits = "Closed" THEN e < env.len
        ELSE s <= e /\ e <= env.len

\* C27: in a finding's suggestion the take comes before the skip, and for a
\* range with an end that stays inside the container the suggested chain
\* yields exactly the elements the loop indexes, in order; in the enumerate
\* form each is paired with the value of the loop variable.
C27_ChainVisitsIndexed ==
    RangeIndexApplies =>
        \A k \in 1..Len(diags) :
            diags[k].lint = "NEEDLESS_RANGE_LOOP" =>
                LET d    == diags[k]
                    sugg == d.arg_sugg
                IN  /\ \A i, j \in 1..Len(sugg) :
                            Tok(sugg[i], ".take(") /\ Tok(sugg[j], ".skip(") => i < j
                    /\ expr.arg.end # NoExpr =>
                        \A env \in Envs :
                            InBounds(expr.arg, d.indexed, env) =>
                                EvalChain(sugg, d.indexed, env) =
                                    LoopVisits(expr.arg, d.indexed, HasPart(sugg, ".iter().enumerate()"), env)

\* Witness of C27: `for i in 1...n { v[i]; f(i) }` is flagged with
\* `v.iter().enumerate().take(n + 1).skip(1)`, which for n = 2 and a `v` of
\* three elements yields (1, v[1]), (2, v[2]).
C27_Witness ==
    /\ RangeIndexApplies
    /\ expr.arg = Range(ExprLit(1), ExprVar("n"), "Closed")
    /\ Len(diags) = 1
    /\ diags[1].arg_sugg = <<"v", ".iter().enumerate()", ".take(", "n", " + 1", ")", ".skip(", "lit", 1, ")">>
    /\ EvalChain(diags[1].arg_sugg, "v", [n |-> 2, len |-> 3, other |-> 0])
        = <<<<1, <<"v", 1>>>>, <<2, <<"v", 2>>>>>>

(***************************************************************************)
(* loops.rs: FOR_KV_MAP                                                    *)
(***************************************************************************)

\* Identifiers are sequences of characters.
Name_k  == <<"k">>
Name_uk == <<"_", "k">>
Name_v  == <<"v">>
Name_uv == <<"_", "v">>
BodyNames == {Name_k, Name_uk, Name_v, Name_uv}

starts_with(name, ch) == Len(name) >= 1 /\ name[1] = ch

\* The sub-patterns of the loop's tuple pattern: `_`, a binding `x` (sub: with
\* a sub-pattern, `x @ p`), any other pattern.
SubWild             == [kind |-> "Wild", name |-> <<>>, sub |-> FALSE]
SubBinding(name)    == [kind |-> "Binding", name |-> name, sub |-> FALSE]
SubBindingAt(name)  == [kind |-> "Binding", name |-> name, sub |-> TRUE]
SubOther            == [kind |-> "Other", name |-> <<>>, sub |-> FALSE]

KeyPats   == {SubWild, SubBinding(Name_k), SubBinding(Name_uk), SubBindingAt(Name_uk), SubOther}
ValuePats == {SubWild, SubBinding(Name_v), SubBinding(Name_uv), SubBindingAt(Name_uv), SubOther}

\* PatKind::Tuple(pats, _), and a loop pattern that is no tuple.
KvTuple(pats) == [kind |-> "Tuple", pats |-> pats]
KvNoTuple     == [kind |-> "Binding", pats |-> <<>>]

KvPats ==
    {KvTuple(<<key, value>>) : key \in KeyPats, value \in ValuePats} \cup
    {KvTuple(<<SubWild, SubBinding(Name_v), SubWild>>), KvNoTuple}

\* Types: a nominal type, or a reference to a type.
TyAdt(path) == [ref |-> FALSE, path |-> path, to |-> <<>>]
TyRef(ty)   == [ref |-> TRUE, path |-> "", to |-> <<ty>>]

\* walk_ptrs_ty
RECURSIVE walk_ptrs_ty(_)
walk_ptrs_ty(ty) == IF ty.ref THEN walk_ptrs_ty(ty.to[1]) ELSE ty

\* match_type(cx, ty, path)
match_type(ty, path) == ~ty.ref /\ ty.path = path

\* The iterated argument: the expression `map` of the given type, bare
\* (borrow "No"), behind `&` ("MutImmutable") or behind `&mut` ("MutMutable").
KvArg(borrow, ty) == [borrow |-> borrow, ty |-> ty, text |-> <<"map">>]

KvArgs ==
    {KvArg(borrow, ty) :
        borrow \in {"No", "MutImmutable", "MutMutable"},
        ty \in {TyAdt("HashMap"), TyAdt("BTreeMap"), TyAdt("Vec"),
                TyRef(TyAdt("HashMap")), TyRef(TyAdt("Vec"))}}

\* body: the names of the single-segment path expressions in the loop body.
KvLoop(pat, arg, body) == [node |-> "ForLoop", pat |-> pat, arg |-> arg, body |-> body]

\* UsedVisitor over the body: some path expression is the single name var.
UsedInBody(var, body) == var \in body

\* pat_is_wild taking every underscore-prefixed binding for unused.
pat_is_wild_unchecked(pat, body) ==
    IF pat.kind = "Wild" THEN TRUE
    ELSE IF pat.kind = "Binding" /\ ~pat.sub /\ starts_with(pat.name, "_") THEN TRUE
    ELSE FALSE

\* pat_is_wild
pat_is_wild(pat, body) ==
    IF pat.kind = "Wild" THEN TRUE
    ELSE IF pat.kind = "Binding" /\ ~pat.sub /\ starts_with(pat.name, "_")
    THEN ~UsedInBody(pat.name, body)
    ELSE FALSE

\* The snippet of a sub-pattern.
SubPatText(pat) ==
    IF pat.kind = "Wild" THEN <<"_">>
    ELSE IF pat.kind = "Binding" THEN pat.name \o (IF pat.sub THEN <<" @ ..">> ELSE <<>>)
    ELSE <<"..">>

\* check_for_loop_over_map_kv that returns early when both sides are ignored.
MapKvDiagsOneSide(e) ==
    IF e.pat.kind = "Tuple" /\ Len(e.pat.pats) = 2
    THEN LET key   == e.pat.pats[1]
             value == e.pat.pats[2]
             kind  == IF pat_is_wild(key, e.body) /\ pat_is_wild(value, e.body) THEN ""
                      ELSE IF pat_is_wild(key, e.body) THEN "value"
                      ELSE IF pat_is_wild(value, e.body) THEN "key"
                      ELSE ""
             new_pat == IF kind = "value" THEN value ELSE key
         IN  IF kind = "" THEN <<>>
             ELSE IF e.arg.borrow = "MutMutable" THEN <<>>
             ELSE IF match_type(walk_ptrs_ty(e.arg.ty), "HashMap")
                     \/ match_type(walk_ptrs_ty(e.arg.ty), "BTreeMap")
             THEN <<[lint |-> "FOR_KV_MAP",
                     kind |-> kind,
                     pat_sugg |-> SubPatText(new_pat),
                     arg_sugg |-> e.arg.text \o <<".", kind, "s()">>]>>
             ELSE <<>>
    ELSE <<>>

\* check_for_loop_over_map_kv: the diagnostics it emits for a for-loop.
MapKvDiags(e) ==
    IF e.pat.kind = "Tuple" /\ Len(e.pat.pats) = 2
    THEN LET key   == e.pat.pats[1]
             value == e.pat.pats[2]
             kind  == IF pat_is_wild(key, e.body) THEN "value"
                      ELSE IF pat_is_wild(value, e.body) THEN "key"
                      ELSE ""
             new_pat == IF kind = "value" THEN value ELSE key
         IN  IF kind = "" THEN <<>>
             ELSE IF e.arg.borrow = "MutMutable" THEN <<>>
             ELSE IF match_type(walk_ptrs_ty(e.arg.ty), "HashMap")
                     \/ match_type(walk_ptrs_ty(e.arg.ty), "BTreeMap")
             THEN <<[lint |-> "FOR_KV_MAP",
                     kind |-> kind,
                     pat_sugg |-> SubPatText(new_pat),
                     arg_sugg |-> e.arg.text \o <<".", kind, "s()">>]>>
             ELSE <<>>
    ELSE <<>>

check_for_loop_over_map_kv ==
    /\ pc = "check_expr"
    /\ diags' = diags \o MapKvDiags(expr)
    /\ pc' = "done"
    /\ UNCHANGED <<expr, visitor, iter, visitor2, runs>>

InitMapKv ==
    /\ \E pat \in KvPats : \E arg \in KvArgs : \E body \in SUBSET BodyNames :
            expr = KvLoop(pat, arg, body)
    /\ pc = "check_expr"
    /\ diags = <<>>
    /\ NoVisitors

NextMapKv == check_for_loop_over_map_kv

SpecMapKv == InitMapKv /\ [][NextMapKv]_vars

(***************************************************************************)
(* Claims about FOR_KV_MAP                                                 *)
(***************************************************************************)

\* A side of the pattern is ignored: a wildcard, or an underscore-prefixed
\* binding whose name is not referenced in the body.
Ignored(pat, body) ==
    \/ pat.kind = "Wild"
    \/ pat.kind = "Binding" /\ ~pat.sub /\ pat.name[1] = "_" /\ pat.name \notin body

\* The loop has a 2-tuple pattern and iterates a HashMap or BTreeMap, directly
\* or behind a shared borrow.
IteratesMap ==
    /\ pc = "done" /\ expr.pat.kind = "Tuple" /\ Len(expr.pat.pats) = 2
    /\ expr.arg.borrow \in {"No", "MutImmutable"}
    /\ expr.arg.ty \in {TyAdt("HashMap"), TyAdt("BTreeMap"), TyRef(TyAdt("HashMap"))}

Suggests(method) ==
    /\ Len(diags) = 1
    /\ diags[1].lint = "FOR_KV_MAP"
    /\ diags[1].arg_sugg = <<"map", ".", method, "s()">>

MutBorrowSilent ==
    (pc = "done" /\ expr.arg.borrow = "MutMutable") => ~HasLint("FOR_KV_MAP")

\* C8 (the claim as stated): an ignored key side gives `.values()`, an ignored
\* value side gives `.keys()`, a referenced underscore binding is not ignored
\* (no finding beside a real binding), and `&mut map` never gives a finding.
C8_AsStated ==
    /\ IteratesMap =>
        /\ Ignored(expr.pat.pats[1], expr.body) => Suggests("value")
        /\ Ignored(expr.pat.pats[2], expr.body) => Suggests("key")
        /\ (~Ignored(expr.pat.pats[1], expr.body) /\ ~Ignored(expr.pat.pats[2], expr.body))
                => ~HasLint("FOR_KV_MAP")
    /\ MutBorrowSilent

\* C8 (amended): an ignored key side gives `.values()`; an ignored value side
\* gives `.keys()` when the key side is not ignored as well; with no side
\* ignored there is no finding; `&mut map` never gives a finding.
C8_KeysOrValues ==
    /\ IteratesMap =>
        /\ Ignored(expr.pat.pats[1], expr.body) => Suggests("value")
        /\ (Ignored(expr.pat.pats[2], expr.body) /\ ~Ignored(expr.pat.pats[1], expr.body))
                => Suggests("key")
        /\ (~Ignored(expr.pat.pats[1], expr.body) /\ ~Ignored(expr.pat.pats[2], expr.body))
                => ~HasLint("FOR_KV_MAP")
    /\ MutBorrowSilent

\* Witness of C8: `for (k, _v) in &map`, `_v` unused in the body: `.keys()`.
C8_Witness ==
    /\ IteratesMap
    /\ expr.pat.pats = <<SubBinding(Name_k), SubBinding(Name_uv)>>
    /\ expr.arg.borrow = "MutImmutable"
    /\ Name_uv \notin expr.body
    /\ Suggests("key")

\* C22 (the claim as stated): there is a finding exactly when one side of
\* the 2-tuple pattern is ignored and the other is not.
C22_AsStated ==
    IteratesMap =>
        (HasLint("FOR_KV_MAP") <=>
            (Ignored(expr.pat.pats[1], expr.body) # Ignored(expr.pat.pats[2], expr.body)))

\* C22 (amended): there is a finding exactly when at least one side of the
\* 2-tuple pattern is ignored; with both sides ignored the finding is the one
\* of the ignored key, `.values()` with the value pattern kept.
C22_SomeSideIgnored ==
    IteratesMap =>
        /\ HasLint("FOR_KV_MAP") <=>
                (Ignored(expr.pat.pats[1], expr.body) \/ Ignored(expr.pat.pats[2], expr.body))
        /\ (Ignored(expr.pat.pats[1], expr.body) /\ Ignored(expr.pat.pats[2], expr.body))
                => (Suggests("value") /\ diags[1].pat_sugg = SubPatText(expr.pat.pats[2]))

\* Witness of C22: `for (_, _) in &map` gets the `.values()` finding.
C22_Witness ==
    /\ IteratesMap
    /\ expr.pat.pats = <<SubWild, SubWild>>
    /\ expr.arg.borrow = "MutImmutable"
    /\ Suggests("value")

(***************************************************************************)
(* loops.rs: EXPLICIT_COUNTER_LOOP                                         *)
(*                                                                         *)
(* A subtree of the HIR is the sequence of its nodes in the order the      *)
(* visitors walk it (pre-order).  An if/match and a loop/while are an      *)
(* opening node, their children, and a closing node at which the call      *)
(* that walked the children returns.                                       *)
(***************************************************************************)

\* The bindings (NodeIds of their patterns) and their names.
Bindings == {1, 2}
BindingName(id) == IF id = 1 THEN "i" ELSE "j"

\* A path expression that resolves to the local `id`, by the place it has in
\* its parent expression: "AddOne" the left-hand side of `x += 1`, "AssignOp"
\* of another compound assignment, "AssignZero" of `x = 0`, "Assign" of
\* another assignment, "AddrOfMut" the operand of `&mut x`, "Read" any other
\* place, "NoParent" a path whose parent node is no expression.
TokRef(id, role) == [tok |-> "Ref", id |-> id, role |-> role, init |-> ""]
\* `let x = init;`: init "Zero" the literal 0, "Other" another expression
\* without sub-expressions of interest, "None" no initializer.
TokDecl(id, init) == [tok |-> "Decl", id |-> id, role |-> "", init |-> init]
TokCondOpen  == [tok |-> "CondOpen", id |-> 0, role |-> "", init |-> ""]
TokCondClose == [tok |-> "CondClose", id |-> 0, role |-> "", init |-> ""]
TokLoopOpen  == [tok |-> "LoopOpen", id |-> 0, role |-> "", init |-> ""]
TokLoopClose == [tok |-> "LoopClose", id |-> 0, role |-> "", init |-> ""]
\* A loop/while together with its subtree, where no visitor walks into it.
TokLoop      == [tok |-> "Loop", id |-> 0, role |-> "", init |-> ""]
\* The for-loop under inspection, as a node of its enclosing block.
TokForLoop   == [tok |-> "ForLoop", id |-> 0, role |-> "", init |-> ""]

is_loop(t)        == t.tok \in {"LoopOpen", "Loop"}
is_conditional(t) == t.tok = "CondOpen"
IsOpen(t)  == t.tok \in {"CondOpen", "LoopOpen"}
IsClose(t) == t.tok \in {"CondClose", "LoopClose"}

\* The closing node of the subtree whose opening node is being scanned.
RECURSIVE CloseOf(_, _, _)
CloseOf(tokens, pos, nest) ==
    IF IsOpen(tokens[pos]) THEN CloseOf(tokens, pos + 1, nest + 1)
    ELSE IF IsClose(tokens[pos])
         THEN IF nest = 1 THEN pos ELSE CloseOf(tokens, pos + 1, nest - 1)
         ELSE CloseOf(tokens, pos + 1, nest)

\* The node visited next when visit_expr returns without walking the node at pos.
AfterSubtree(tokens, pos) ==
    IF IsOpen(tokens[pos]) THEN CloseOf(tokens, pos, 0) + 1 ELSE pos + 1

\* Every opening node is closed by a closing node of its kind.
RECURSIVE WellNested(_, _, _)
WellNested(tokens, pos, stack) ==
    IF pos > Len(tokens) THEN stack = <<>>
    ELSE IF tokens[pos].tok = "CondOpen" THEN WellNested(tokens, pos + 1, <<"CondClose">> \o stack)
    ELSE IF tokens[pos].tok = "LoopOpen" THEN WellNested(tokens, pos + 1, <<"LoopClose">> \o stack)
    ELSE IF IsClose(tokens[pos])
         THEN stack # <<>> /\ stack[1] = tokens[pos].tok /\ WellNested(tokens, pos + 1, Tail(stack))
         ELSE WellNested(tokens, pos + 1, stack)

\* The for-loop: the nodes of its body, and the nodes of the block two
\* scopes up (NoBlock when that scope is no block).
NoBlock == <<[tok |-> "NoBlock", id |-> 0, role |-> "", init |-> ""]>>
CounterLoop(body, block) ==
    [node |-> "ForLoop", body |-> body, block |-> block, arg |-> <<"&v">>]

\* IncrementVisitor { states: HashMap::new(), depth: 0, done: false }; pos is
\* the node the walk is at.
NewIncrementVisitor == [states |-> <<>>, depth |-> 0, done |-> FALSE, pos |-> 1]

\* IncrementVisitor: the state a reference leaves the binding in, with a
\* `+= 1` at depth 0 counted whatever the state before.
IncrementStateRecount(state, role, depth) ==
    IF role = "AddOne"
    THEN IF depth = 0 THEN "IncrOnce" ELSE "DontWarn"
    ELSE IF role \in {"AssignOp", "AssignZero", "Assign", "AddrOfMut"} THEN "DontWarn"
    ELSE state

\* IncrementVisitor: the state a reference leaves the binding in, with a first
\* `+= 1` counted at any depth.
IncrementStateAnyDepth(state, role, depth) ==
    IF role = "AddOne"
    THEN IF state = "Initial" THEN "IncrOnce" ELSE "DontWarn"
    ELSE IF role \in {"AssignOp", "AssignZero", "Assign", "AddrOfMut"} THEN "DontWarn"
    ELSE state

\* IncrementVisitor: the state a reference leaves the binding in, with `&mut x`
\* taken for a read.
IncrementStateBorrowOk(state, role, depth) ==
    IF role = "AddOne"
    THEN IF state = "Initial" /\ depth = 0 THEN "IncrOnce" ELSE "DontWarn"
    ELSE IF role \in {"AssignOp", "AssignZero", "Assign"} THEN "DontWarn"
    ELSE state

\* IncrementVisitor: the state a reference leaves the binding in.
IncrementState(state, role, depth) ==
    IF role = "AddOne"
    THEN IF state = "Initial" /\ depth = 0 THEN "IncrOnce" ELSE "DontWarn"
    ELSE IF role \in {"AssignOp", "AssignZero", "Assign", "AddrOfMut"} THEN "DontWarn"
    ELSE state

\* states.entry(def_id).or_insert(VarState::Initial), then the match on the parent.
IncrementRef(states, t, depth) ==
    IF t.role = "NoParent" THEN states
    ELSE LET state == IF t.id \in DOMAIN states THEN states[t.id] ELSE "Initial"
         IN  MapInsert(states, t.id, IncrementState(state, t.role, depth))

\* IncrementVisitor::visit_expr that keeps the states at a nested loop.
IncrementVisitNoClear(v, tokens) ==
    LET t == tokens[v.pos]
    IN  IF t.tok = "CondClose" THEN [v EXCEPT !.depth = @ - 1, !.pos = @ + 1]
        ELSE IF v.done THEN [v EXCEPT !.pos = AfterSubtree(tokens, v.pos)]
        ELSE IF t.tok = "Ref"
             THEN [v EXCEPT !.states = IncrementRef(@, t, v.depth), !.pos = @ + 1]
        ELSE IF is_loop(t)
             THEN [v EXCEPT !.done = TRUE, !.pos = AfterSubtree(tokens, v.pos)]
        ELSE IF is_conditional(t) THEN [v EXCEPT !.depth = @ + 1, !.pos = @ + 1]
        ELSE [v EXCEPT !.pos = @ + 1]

\* IncrementVisitor::visit_expr that leaves the depth as it is once the walk
\* is aborted.
IncrementVisitNoUnwind(v, tokens) ==
    LET t == tokens[v.pos]
    IN  IF t.tok = "CondClose"
        THEN IF v.done THEN [v EXCEPT !.pos = @ + 1]
             ELSE [v EXCEPT !.depth = @ - 1, !.pos = @ + 1]
        ELSE IF v.done THEN [v EXCEPT !.pos = AfterSubtree(tokens, v.pos)]
        ELSE IF t.tok = "Ref"
             THEN [v EXCEPT !.states = IncrementRef(@, t, v.depth), !.pos = @ + 1]
        ELSE IF is_loop(t)
             THEN [v EXCEPT !.states = <<>>, !.done = TRUE, !.pos = AfterSubtree(tokens, v.pos)]
        ELSE IF is_conditional(t) THEN [v EXCEPT !.depth = @ + 1, !.pos = @ + 1]
        ELSE [v EXCEPT !.pos = @ + 1]

\* IncrementVisitor::visit_expr on the node at v.pos (at a closing node: the
\* return of the visit_expr that walked the conditional).
IncrementVisit(v, tokens) ==
    LET t == tokens[v.pos]
    IN  IF t.tok = "CondClose" THEN [v EXCEPT !.depth = @ - 1, !.pos = @ + 1]
        ELSE IF v.done THEN [v EXCEPT !.pos = AfterSubtree(tokens, v.pos)]
        ELSE IF t.tok = "Ref"
             THEN [v EXCEPT !.states = IncrementRef(@, t, v.depth), !.pos = @ + 1]
        ELSE IF is_loop(t)
             THEN [v EXCEPT !.states = <<>>, !.done = TRUE, !.pos = AfterSubtree(tokens, v.pos)]
        ELSE IF is_conditional(t) THEN [v EXCEPT !.depth = @ + 1, !.pos = @ + 1]
        ELSE [v EXCEPT !.pos = @ + 1]

\* visitor.states.iter().filter(|&(_, v)| *v == VarState::IncrOnce)
Candidates(states) == {id \in DOMAIN states : states[id] = "IncrOnce"}

\* An InitializeVisitor that keeps the past_loop flag of the previous candidate.
NewInitializeVisitorStale(id, previous) ==
    [var_id |-> id, state |-> "IncrOnce", name |-> None, depth |-> 0,
     past_loop |-> previous.past_loop, pos |-> 1]

\* InitializeVisitor { var_id, state: IncrOnce, name: None, depth: 0, past_loop: false }
NewInitializeVisitor(id, previous) ==
    [var_id |-> id, state |-> "IncrOnce", name |-> None, depth |-> 0,
     past_loop |-> FALSE, pos |-> 1]

\* InitializeVisitor::visit_expr: the match on the parent of a reference to var_id.
InitializeState(state, role, depth) ==
    IF role \in {"AddOne", "AssignOp"} THEN "DontWarn"
    ELSE IF role = "AssignZero" THEN IF depth = 0 THEN "Warn" ELSE "DontWarn"
    ELSE IF role = "Assign" THEN "DontWarn"
    ELSE IF role = "AddrOfMut" THEN "DontWarn"
    ELSE state

\* visit_decl taking any declaration of the binding for a zero initialization.
InitializeDeclAnyInit(v, t) ==
    IF t.id = v.var_id
    THEN [v EXCEPT !.name = BindingName(t.id), !.state = "Warn"]
    ELSE v

\* InitializeVisitor::visit_decl
InitializeDecl(v, t) ==
    IF t.id = v.var_id
    THEN [v EXCEPT !.name = BindingName(t.id),
                   !.state = IF t.init = "Zero" THEN "Warn" ELSE "Declared"]
    ELSE v

\* InitializeVisitor that treats a reference after the loop as one before it.
InitializeVisitNoPastLoop(v, tokens) ==
    LET t == tokens[v.pos]
    IN  IF t.tok = "Decl" THEN [InitializeDecl(v, t) EXCEPT !.pos = @ + 1]
        ELSE IF t.tok = "CondClose" THEN [v EXCEPT !.depth = @ - 1, !.pos = @ + 1]
        ELSE IF t.tok = "LoopClose" THEN [v EXCEPT !.pos = @ + 1]
        ELSE IF v.state = "DontWarn" THEN [v EXCEPT !.pos = AfterSubtree(tokens, v.pos)]
        ELSE IF t.tok = "ForLoop" THEN [v EXCEPT !.past_loop = TRUE, !.pos = @ + 1]
        ELSE IF v.state = "IncrOnce" THEN [v EXCEPT !.pos = AfterSubtree(tokens, v.pos)]
        ELSE IF t.tok = "Ref" /\ t.id = v.var_id
             THEN [v EXCEPT !.state = InitializeState(v.state, t.role, v.depth), !.pos = @ + 1]
        ELSE IF ~v.past_loop /\ is_loop(t)
             THEN [v EXCEPT !.state = "DontWarn", !.pos = AfterSubtree(tokens, v.pos)]
        ELSE IF is_conditional(t) THEN [v EXCEPT !.depth = @ + 1, !.pos = @ + 1]
        ELSE [v EXCEPT !.pos = @ + 1]

\* InitializeVisitor whose past_loop test applies to writes only.
InitializeVisitReadsOk(v, tokens) ==
    LET t == tokens[v.pos]
    IN  IF t.tok = "Decl" THEN [InitializeDecl(v, t) EXCEPT !.pos = @ + 1]
        ELSE IF t.tok = "CondClose" THEN [v EXCEPT !.depth = @ - 1, !.pos = @ + 1]
        ELSE IF t.tok = "LoopClose" THEN [v EXCEPT !.pos = @ + 1]
        ELSE IF v.state = "DontWarn" THEN [v EXCEPT !.pos = AfterSubtree(tokens, v.pos)]
        ELSE IF t.tok = "ForLoop" THEN [v EXCEPT !.past_loop = TRUE, !.pos = @ + 1]
        ELSE IF v.state = "IncrOnce" THEN [v EXCEPT !.pos = AfterSubtree(tokens, v.pos)]
        ELSE IF t.tok = "Ref" /\ t.id = v.var_id
             THEN [v EXCEPT !.state = IF v.past_loop /\ t.role # "Read" THEN "DontWarn"
                                      ELSE InitializeState(v.state, t.role, v.depth),
                            !.pos = @ + 1]
        ELSE IF ~v.past_loop /\ is_loop(t)
             THEN [v EXCEPT !.state = "DontWarn", !.pos = AfterSubtree(tokens, v.pos)]
        ELSE IF is_conditional(t) THEN [v EXCEPT !.depth = @ + 1, !.pos = @ + 1]
        ELSE [v EXCEPT !.pos = @ + 1]

\* InitializeVisitor::visit_decl / visit_expr on the node at v.pos (at a
\* closing node: the return of the visit_expr that walked the children).
InitializeVisit(v, tokens) ==
    LET t == tokens[v.pos]
    IN  IF t.tok = "Decl" THEN [InitializeDecl(v, t) EXCEPT !.pos = @ + 1]
        ELSE IF t.tok = "CondClose" THEN [v EXCEPT !.depth = @ - 1, !.pos = @ + 1]
        ELSE IF t.tok = "LoopClose" THEN [v EXCEPT !.pos = @ + 1]
        ELSE IF v.state = "DontWarn" THEN [v EXCEPT !.pos = AfterSubtree(tokens, v.pos)]
        ELSE IF t.tok = "ForLoop" THEN [v EXCEPT !.past_loop = TRUE, !.pos = @ + 1]
        ELSE IF v.state = "IncrOnce" THEN [v EXCEPT !.pos = AfterSubtree(tokens, v.pos)]
        ELSE IF t.tok = "Ref" /\ t.id = v.var_id
             THEN [v EXCEPT !.state = IF v.past_loop THEN "DontWarn"
                                      ELSE InitializeState(v.state, t.role, v.depth),
                            !.pos = @ + 1]
        ELSE IF ~v.past_loop /\ is_loop(t)
             THEN [v EXCEPT !.state = "DontWarn", !.pos = AfterSubtree(tokens, v.pos)]
        ELSE IF is_conditional(t) THEN [v EXCEPT !.depth = @ + 1, !.pos = @ + 1]
        ELSE [v EXCEPT !.pos = @ + 1]

\* The diagnostic of a candidate, emitted for a declared candidate as well.
CounterDiagsDeclared(v, e) ==
    IF v.state \in {"Warn", "Declared"} /\ v.name # None
    THEN <<[lint |-> "EXPLICIT_COUNTER_LOOP", name |-> v.name, arg |-> e.arg]>>
    ELSE <<>>

\* The diagnostic of a candidate whose InitializeVisitor has walked the block.
CounterDiags(v, e) ==
    IF v.state = "Warn" /\ v.name # None
    THEN <<[lint |-> "EXPLICIT_COUNTER_LOOP", name |-> v.name, arg |-> e.arg]>>
    ELSE <<>>

\* walk_expr(&mut visitor, body): IncrementVisitor::visit_expr on the next node.
increment_visit_expr ==
    /\ pc = "walk_body"
    /\ visitor.pos <= Len(expr.body)
    /\ visitor' = IncrementVisit(visitor, expr.body)
    /\ UNCHANGED <<expr, pc, diags, iter, visitor2, runs>>

\* The body is walked: with the block two scopes up at hand, iterate over the
\* candidates, the bindings in state IncrOnce.
increment_walk_end ==
    /\ pc = "walk_body"
    /\ visitor.pos > Len(expr.body)
    /\ iter' = IF expr.block = NoBlock THEN {} ELSE Candidates(visitor.states)
    /\ pc' = "candidates"
    /\ UNCHANGED <<expr, diags, visitor, visitor2, runs>>

\* The HashMap iterator yields a candidate, any of those left: a fresh
\* InitializeVisitor for it.
next_candidate ==
    /\ pc = "candidates"
    /\ \E id \in iter :
        /\ visitor2' = NewInitializeVisitor(id, visitor2)
        /\ iter' = iter \ {id}
    /\ pc' = "walk_block"
    /\ UNCHANGED <<expr, diags, visitor, runs>>

\* The iterator is exhausted: check_for_loop_explicit_counter returns.
candidates_end ==
    /\ pc = "candidates"
    /\ iter = {}
    /\ pc' = "done"
    /\ UNCHANGED <<expr, diags, visitor, iter, visitor2, runs>>

\* walk_block(&mut visitor2, block): InitializeVisitor on the next node.
initialize_visit ==
    /\ pc = "walk_block"
    /\ visitor2.pos <= Len(expr.block)
    /\ visitor2' = InitializeVisit(visitor2, expr.block)
    /\ UNCHANGED <<expr, pc, diags, visitor, iter, runs>>

\* The block is walked: lint the candidate if its state is Warn.
initialize_walk_end ==
    /\ pc = "walk_block"
    /\ visitor2.pos > Len(expr.block)
    /\ diags' = diags \o CounterDiags(visitor2, expr)
    /\ pc' = "candidates"
    /\ UNCHANGED <<expr, visitor, iter, visitor2, runs>>

\* The nodes of loop bodies.
BodyTokens ==
    {TokRef(1, role) : role \in {"AddOne", "AssignOp", "AssignZero", "AddrOfMut", "Read"}}
    \cup {TokRef(2, "AddOne"), TokCondOpen, TokCondClose, TokLoop}

\* What stands between the declarations and the for-loop, and after the loop.
PreItems ==
    {<<>>, <<TokRef(1, "AssignZero")>>, <<TokRef(1, "Assign")>>, <<TokRef(1, "AddrOfMut")>>,
     <<TokRef(1, "NoParent")>>,
     <<TokCondOpen, TokRef(1, "AssignZero"), TokCondClose>>,
     <<TokLoopOpen, TokLoopClose>>}
PostItems ==
    {<<>>, <<TokRef(1, "Read")>>, <<TokRef(1, "AssignZero")>>,
     <<TokLoopOpen, TokRef(2, "Read"), TokLoopClose>>}

\* `let mut j = 0; let mut i [= init]; pre; for .. { body } post`
CounterBlock(init, pre, post) ==
    <<TokDecl(2, "Zero"), TokDecl(1, init)>> \o pre \o <<TokForLoop>> \o post

\* `loop { } let mut j = 0; let mut i [= init]; for .. { body }`
LoopFirstBlock(init) == <<TokLoopOpen, TokLoopClose>> \o CounterBlock(init, <<>>, <<>>)

\* `let mut j = 0; for .. { body } post`, the binding i being declared in a
\* block further out, which the InitializeVisitor does not walk.
OuterDeclBlock(post) == <<TokDecl(2, "Zero"), TokForLoop>> \o post

\* The pass has no fields; the sink is empty; the walker is at a for-loop,
\* check_for_loop_explicit_counter has created its IncrementVisitor.
InitCounterOver(tokens) ==
    /\ \E n \in 0..MaxBody : \E body \in [1..n -> tokens] :
        /\ WellNested(body, 1, <<>>)
        /\ \/ expr = CounterLoop(body, NoBlock)
           \/ \E init \in {"Zero", "Other", "None"} : \E pre \in PreItems : \E post \in PostItems :
                /\ pre = <<>> \/ post = <<>>
                /\ expr = CounterLoop(body, CounterBlock(init, pre, post))
           \/ \E init \in {"Zero", "Other", "None"} :
                expr = CounterLoop(body, LoopFirstBlock(init))
           \/ \E post \in PostItems : expr = CounterLoop(body, OuterDeclBlock(post))
    /\ pc = "walk_body"
    /\ diags = <<>>
    /\ visitor = NewIncrementVisitor
    /\ iter = {}
    /\ visitor2 = NoInitializeVisitor
    /\ runs = <<>>

InitCounter == InitCounterOver(BodyTokens)

NextCounter ==
    \/ increment_visit_expr
    \/ increment_walk_end
    \/ next_candidate
    \/ candidates_end
    \/ initialize_visit
    \/ initialize_walk_end

SpecCounter == InitCounter /\ [][NextCounter]_vars

\* The lint pass is run a second time over the unchanged tree: Pass is a unit
\* struct, the sink is new, check_for_loop_explicit_counter starts afresh.
second_run ==
    /\ pc = "done"
    /\ runs = <<>>
    /\ runs' = <<diags>>
    /\ diags' = <<>>
    /\ visitor' = NewIncrementVisitor
    /\ iter' = {}
    /\ visitor2' = NoInitializeVisitor
    /\ pc' = "walk_body"
    /\ UNCHANGED expr

\* Loop bodies for the two runs: increments of both bindings, reads, conditionals.
TwoRunTokens ==
    {TokRef(1, "AddOne"), TokRef(2, "AddOne"), TokRef(1, "Read"), TokCondOpen, TokCondClose}

InitTwoRuns == InitCounterOver(TwoRunTokens)

NextTwoRuns == NextCounter \/ second_run

SpecTwoRuns == InitTwoRuns /\ [][NextTwoRuns]_vars

(***************************************************************************)
(* Claims about EXPLICIT_COUNTER_LOOP                                      *)
(***************************************************************************)

\* The binding is reported by EXPLICIT_COUNTER_LOOP.
Fired(id) ==
    \E k \in 1..Len(diags) :
        diags[k].lint = "EXPLICIT_COUNTER_LOOP" /\ diags[k].name = BindingName(id)

\* The references to a binding among the nodes.
RefsTo(tokens, id) == {k \in 1..Len(tokens) : tokens[k].tok = "Ref" /\ tokens[k].id = id}

\* The number of if/match nodes that enclose the node at k.
CondNesting(tokens, k) ==
    Cardinality({j \in 1..(k - 1) : tokens[j].tok = "CondOpen"})
    - Cardinality({j \in 1..(k - 1) : tokens[j].tok = "CondClose"})

\* The place of the for-loop in its block.
LoopAt(block) == CHOOSE k \in 1..Len(block) : block[k].tok = "ForLoop"

\* The binding is declared in the block.
DeclaredIn(block, id) == \E k \in 1..Len(block) : block[k].tok = "Decl" /\ block[k].id = id

\* The initializer kind of the declaration of the binding in the block
\* ("Outer": the binding is declared in a block further out).
DeclInit(block, id) ==
    IF DeclaredIn(block, id)
    THEN block[CHOOSE k \in 1..Len(block) : block[k].tok = "Decl" /\ block[k].id = id].init
    ELSE "Outer"

\* The binding is incremented by exactly one unconditional `+= 1` in the body
\* and not referred to otherwise, the body has no nested loop, and in the
\* block the binding is declared and not referred to, with no loop between
\* the declaration and the for-loop.
CounterShape(id) ==
    /\ expr.block # NoBlock
    /\ \E k \in 1..Len(expr.body) :
        /\ RefsTo(expr.body, id) = {k}
        /\ expr.body[k].role = "AddOne"
        /\ CondNesting(expr.body, k) = 0
    /\ \A k \in 1..Len(expr.body) : ~is_loop(expr.body[k])
    /\ RefsTo(expr.block, id) = {}
    /\ \A k \in 1..LoopAt(expr.block) : expr.block[k].tok # "LoopOpen"

\* The binding is assigned the literal 0 outside conditionals before the loop.
AssignedZeroBeforeLoop(id) ==
    \E k \in 1..LoopAt(expr.block) :
        expr.block[k] = TokRef(id, "AssignZero") /\ CondNesting(expr.block, k) = 0

\* The body increments the binding by `+= 1`, and only inside conditionals.
OnlyConditionalIncrement(id) ==
    /\ \E k \in RefsTo(expr.body, id) : expr.body[k].role = "AddOne"
    /\ \A k \in RefsTo(expr.body, id) :
        expr.body[k].role = "AddOne" => CondNesting(expr.body, k) > 0

C6_DontWarnAbsorbing ==
    [][ /\ (pc = "walk_body" /\ pc' = "walk_body") =>
            \A id \in DOMAIN visitor.states :
                (visitor.states[id] = "DontWarn" /\ id \in DOMAIN visitor'.states)
                    => visitor'.states[id] = "DontWarn"
        /\ (pc = "walk_block" /\ pc' = "walk_block") =>
            (visitor2.state = "DontWarn" => visitor2'.state = "DontWarn")
      ]_vars

\* Witness of C6: `i -= 1; i += 1;` in the body, both visited, i in DontWarn.
C6_Witness ==
    /\ pc = "walk_body"
    /\ Len(expr.body) >= 2
    /\ expr.body[1] = TokRef(1, "AssignOp")
    /\ expr.body[2] = TokRef(1, "AddOne")
    /\ visitor.pos = 3
    /\ visitor.states[1] = "DontWarn"

\* The multiset of the diagnostics of a run.
BagOfDiags(ds) == [d \in {ds[k] : k \in 1..Len(ds)} |-> Cardinality({k \in 1..Len(ds) : ds[k] = d})]

\* C10: the second run over the unchanged tree emits the same multiset of
\* diagnostics as the first, whatever the order in which the HashMap of the
\* IncrementVisitor yields the candidates in either run.
C10_SameDiagnostics ==
    (pc = "done" /\ Len(runs) = 1) => BagOfDiags(diags) = BagOfDiags(runs[1])

\* Witness of C10: two runs that report two counters, in different orders.
C10_Witness ==
    /\ pc = "done"
    /\ Len(runs) = 1
    /\ Len(diags) = 2
    /\ diags # runs[1]
    /\ BagOfDiags(diags) = BagOfDiags(runs[1])

\* The IncrementVisitor is about to visit, with the walk not aborted, a
\* reference in the body.
VisitsRef ==
    /\ pc = "walk_body" /\ visitor.pos <= Len(expr.body)
    /\ ~visitor.done
    /\ expr.body[visitor.pos].tok = "Ref"

\* The state the IncrementVisitor has for a binding: Initial for a binding
\* not seen yet.
StateOf(states, id) == IF id \in DOMAIN states THEN states[id] ELSE "Initial"

\* C12: a visited left-hand side of `b += 1` moves b to IncrOnce when b is
\* Initial and the depth is 0, and to DontWarn in every other case (depth > 0,
\* b already IncrOnce, b already DontWarn).
C12_AddOneTransition ==
    [][ (VisitsRef /\ expr.body[visitor.pos].role = "AddOne") =>
            LET b == expr.body[visitor.pos].id
            IN  /\ b \in DOMAIN visitor'.states
                /\ visitor'.states[b] =
                        IF StateOf(visitor.states, b) = "Initial" /\ visitor.depth = 0
                        THEN "IncrOnce" ELSE "DontWarn"
      ]_vars

\* Witness of C12: `i += 1; i += 1;`, the second increment has left i in DontWarn.
C12_Witness ==
    /\ pc = "walk_body"
    /\ Len(expr.body) >= 2
    /\ expr.body[1] = TokRef(1, "AddOne")
    /\ expr.body[2] = TokRef(1, "AddOne")
    /\ visitor.pos = 3
    /\ visitor.states[1] = "DontWarn"

\* The body has a nested loop.
HasNestedLoop == \E k \in 1..Len(expr.body) : is_loop(expr.body[k])

\* C13: at a nested loop in the body the IncrementVisitor discards its states
\* and is done, it records nothing from then on, and the for-loop gets no
\* EXPLICIT_COUNTER_LOOP diagnostic.
C13_NestedLoopAborts ==
    /\ (pc = "walk_body" /\ \E k \in 1..(visitor.pos - 1) : is_loop(expr.body[k]))
            => (visitor.done /\ visitor.states = <<>>)
    /\ (HasNestedLoop /\ pc # "walk_body")
            => (visitor.done /\ visitor.states = <<>> /\ iter = {} /\ diags = <<>>)

\* Witness of C13: `let mut i = 0; for .. { i += 1; loop { } }` ends with no diagnostic.
C13_Witness ==
    /\ pc = "done"
    /\ expr.body = <<TokRef(1, "AddOne"), TokLoop>>
    /\ expr.block = CounterBlock("Zero", <<>>, <<>>)
    /\ visitor.done
    /\ diags = <<>>

\* The binding is written (assigned, compound-assigned, mutably borrowed) at
\* node k of the block.
WritesAt(block, k, id) ==
    /\ block[k].tok = "Ref" /\ block[k].id = id
    /\ block[k].role \in {"AddOne", "AssignOp", "AssignZero", "Assign", "AddrOfMut"}

\* C14: the InitializeVisitor sets past_loop at the for-loop node, which it
\* does not walk into; a write to the counter that it has passed after the
\* loop has left it in DontWarn, and the binding is not reported.
C14_WriteAfterLoop ==
    /\ pc = "walk_block" =>
        /\ visitor2.past_loop => visitor2.pos > LoopAt(expr.block)
        /\ (visitor2.pos > LoopAt(expr.block) /\ visitor2.state # "DontWarn") => visitor2.past_loop
        /\ (/\ DeclaredIn(expr.block, visitor2.var_id)
            /\ \E k \in (LoopAt(expr.block) + 1)..(visitor2.pos - 1) :
                    WritesAt(expr.block, k, visitor2.var_id))
            => visitor2.state = "DontWarn"
    /\ (pc = "done" /\ expr.block # NoBlock) =>
        \A id \in Bindings :
            (\E k \in (LoopAt(expr.block) + 1)..Len(expr.block) : WritesAt(expr.block, k, id))
                => ~Fired(id)

\* Witness of C14: `let mut i = 0; for .. { i += 1; } i = 0;` is not reported.
C14_Witness ==
    /\ pc = "done"
    /\ expr.body = <<TokRef(1, "AddOne")>>
    /\ expr.block = CounterBlock("Zero", <<>>, <<TokRef(1, "AssignZero")>>)
    /\ visitor2.var_id = 1
    /\ visitor2.past_loop
    /\ visitor2.state = "DontWarn"
    /\ ~Fired(1)

\* The place of the declaration of the binding in the block (past its end
\* when the binding is declared in a block further out).
DeclAt(block, id) ==
    IF DeclaredIn(block, id)
    THEN CHOOSE k \in 1..Len(block) : block[k].tok = "Decl" /\ block[k].id = id
    ELSE Len(block) + 1

\* C15: the InitializeVisitor stays in IncrOnce, skipping every expression,
\* up to the declaration of its binding; the declaration moves it to Warn if
\* the initializer is the literal 0 and to Declared otherwise; a diagnostic
\* is emitted at the end of the walk exactly if the state is Warn.
C15_DeclarationDecides ==
    /\ [](pc = "walk_block" =>
            (visitor2.pos <= DeclAt(expr.block, visitor2.var_id)
                => /\ visitor2.state = "IncrOnce" /\ visitor2.depth = 0
                   /\ DeclaredIn(expr.block, visitor2.var_id) => ~visitor2.past_loop))
    /\ [][ /\ (pc = "walk_block" /\ pc' = "walk_block"
                /\ visitor2.pos = DeclAt(expr.block, visitor2.var_id))
              => visitor2'.state =
                    IF expr.block[visitor2.pos].init = "Zero" THEN "Warn" ELSE "Declared"
           /\ (pc = "walk_block" /\ pc' = "candidates")
              => /\ visitor2.state = "Warn" => Len(diags') = Len(diags) + 1
                 /\ visitor2.state # "Warn" => diags' = diags
         ]_vars

\* Witness of C15: `loop { } let mut j = 0; let mut i; for ..`: the loop before
\* the declaration is skipped, the declaration of i has left the state Declared.
C15_Witness ==
    /\ pc = "walk_block"
    /\ expr.block = LoopFirstBlock("None")
    /\ visitor2.var_id = 1
    /\ visitor2.pos = DeclAt(expr.block, 1) + 1
    /\ visitor2.state = "Declared"

\* C16: a visited reference to b that is the left-hand side of a plain
\* assignment or of a compound assignment other than `+= 1`, or the operand of
\* `&mut`, moves b to DontWarn whatever its state and the depth; a reference
\* in any other place leaves the state of b as it is; the states of the other
\* bindings are left as they are.
C16_WritesGiveDontWarn ==
    [][ VisitsRef =>
            LET t == expr.body[visitor.pos]
            IN  /\ t.role \in {"Assign", "AssignZero", "AssignOp", "AddrOfMut"}
                    => StateOf(visitor'.states, t.id) = "DontWarn"
                /\ t.role \in {"Read", "NoParent"}
                    => StateOf(visitor'.states, t.id) = StateOf(visitor.states, t.id)
                /\ \A id \in Bindings \ {t.id} :
                        StateOf(visitor'.states, id) = StateOf(visitor.states, id)
      ]_vars

\* Witness of C16: `i += 1; &mut i;`: the borrow has moved i from IncrOnce to DontWarn.
C16_Witness ==
    /\ pc = "walk_body"
    /\ Len(expr.body) >= 2
    /\ expr.body[1] = TokRef(1, "AddOne")
    /\ expr.body[2] = TokRef(1, "AddrOfMut")
    /\ visitor.pos = 3
    /\ visitor.states[1] = "DontWarn"

\* C17: while the IncrementVisitor walks the body its depth is the number of
\* if/match nodes that enclose the node it is at, also after the walk was
\* aborted inside a conditional; the depth is 0 when the walk ends, and a
\* `+= 1` after a conditional at top level is counted at depth 0.
C17_DepthIsCondNesting ==
    /\ pc = "walk_body" => visitor.depth = CondNesting(expr.body, visitor.pos)
    /\ (pc = "walk_body" /\ visitor.pos > Len(expr.body)) => visitor.depth = 0
    /\ pc # "walk_body" => visitor.depth = 0
    /\ (pc = "walk_body" /\ visitor.pos = 4
            /\ SubSeq(expr.body, 1, 3) = <<TokCondOpen, TokCondClose, TokRef(1, "AddOne")>>)
        => visitor.states[1] = "IncrOnce"

\* Witness of C17: `if .. { loop { } }`: the walk was aborted inside the
\* conditional and has left it.
C17_Witness ==
    /\ pc = "walk_body"
    /\ expr.body = <<TokCondOpen, TokLoop, TokCondClose>>
    /\ visitor.pos = 4
    /\ visitor.done
    /\ visitor.depth = 0

\* C29: in the InitializeVisitor, whose binding is declared in the block it
\* walks, a reference to the binding after the for-loop, a read as well as a
\* write, leaves the state DontWarn; a binding referred to after the loop, if
\* only by a read, is not reported.
C29_ReadAfterLoop ==
    /\ [](pc = "walk_block" =>
            ((/\ DeclaredIn(expr.block, visitor2.var_id)
              /\ \E k \in (LoopAt(expr.block) + 1)..(visitor2.pos - 1) :
                    expr.block[k].tok = "Ref" /\ expr.block[k].id = visitor2.var_id)
                => visitor2.state = "DontWarn"))
    /\ [][(/\ pc = "walk_block" /\ pc' = "walk_block"
           /\ visitor2.past_loop
           /\ visitor2.state \in {"Declared", "Warn"}
           /\ expr.block[visitor2.pos].tok = "Ref"
           /\ expr.block[visitor2.pos].id = visitor2.var_id)
            => visitor2'.state = "DontWarn"]_vars
    /\ []((pc = "done" /\ expr.block # NoBlock) =>
            \A id \in Bindings :
                RefsTo(expr.block, id) \cap ((LoopAt(expr.block) + 1)..Len(expr.block)) # {}
                    => ~Fired(id))

\* Witness of C29: `let mut i = 0; for .. { i += 1; } i;` is not reported.
C29_Witness ==
    /\ pc = "done"
    /\ expr.body = <<TokRef(1, "AddOne")>>
    /\ expr.block = CounterBlock("Zero", <<>>, <<TokRef(1, "Read")>>)
    /\ visitor2.var_id = 1
    /\ visitor2.state = "DontWarn"
    /\ diags = <<>>

(***************************************************************************)
(* options.rs: OPTION_AND_THEN_SOME                                        *)
(*                                                                         *)
(* An expression is a record: node its kind, path the segments of a path,  *)
(* kids its sub-expressions, stmts the statements of a block or closure.   *)
(***************************************************************************)

AstExpr(node, path, kids, stmts) == [node |-> node, path |-> path, kids |-> kids, stmts |-> stmts]

ExprPath(path)        == AstExpr("Path", path, <<>>, <<>>)
\* ExprCall(f, args): kids = <<f>> \o args
ExprCall(f, args)     == AstExpr("Call", <<>>, <<f>> \o args, <<>>)
\* ExprBlock / ExprClosure: kids = <<block.expr>>, or <<>> without a tail
ExprBlock(stmts, tail)   == AstExpr("Block", <<>>, tail, stmts)
ExprClosure(stmts, tail) == AstExpr("Closure", <<>>, tail, stmts)
\* ExprIf(_, block, else_expr): kids = <<block>> \o else_expr
ExprIf(block, else_expr) == AstExpr("If", <<>>, <<block>> \o else_expr, <<>>)
\* ExprRet(ret): kids = ret
ExprRet(ret)          == AstExpr("Ret", <<>>, ret, <<>>)
\* any other expression
ExprOther             == AstExpr("Lit", <<>>, <<>>, <<>>)

AstStmt(stmt, init) == [stmt |-> stmt, init |-> init]
StmtDecl(init) == AstStmt("DeclLocal", init)
StmtItem       == AstStmt("DeclItem", <<>>)
StmtExpr(e) == AstStmt("Expr", <<e>>)
StmtSemi(e) == AstStmt("Semi", <<e>>)
StmtMac        == AstStmt("Mac", <<>>)

\* match_segments: the path and the segments agree from the end, as far as
\* the shorter of the two goes.
RECURSIVE match_segments(_, _)
match_segments(path, segments) ==
    IF path = <<>> \/ segments = <<>> THEN TRUE
    ELSE /\ path[Len(path)] = segments[Len(segments)]
         /\ match_segments(SubSeq(path, 1, Len(path) - 1), SubSeq(segments, 1, Len(segments) - 1))

RECURSIVE is_expr_some(_)
RECURSIVE is_expr_not_ret_none(_)
RECURSIVE is_statement_some(_)
RECURSIVE is_block_some(_)

\* is_block_some: block is a Block or Closure expression.
is_block_some(block) ==
    /\ \A k \in 1..Len(block.stmts) : is_statement_some(block.stmts[k])
    /\ (block.kids = <<>> \/ is_expr_some(block.kids[1]))

is_statement_some(stmt) ==
    IF stmt.stmt = "DeclLocal"
    THEN stmt.init = <<>> \/ is_expr_not_ret_none(stmt.init[1])
    ELSE IF stmt.stmt = "DeclItem" THEN TRUE
    ELSE IF stmt.stmt \in {"Expr", "Semi"} THEN is_expr_not_ret_none(stmt.init[1])
    ELSE TRUE

is_expr_not_ret_none(e) ==
    IF e.node = "Ret"
    THEN e.kids # <<>> /\ is_expr_some(e.kids[1])
    ELSE TRUE

is_expr_some(e) ==
    IF e.node = "Path" THEN match_segments(e.path, <<"core", "option", "Option", "Some">>)
    ELSE IF e.node = "Call"
         THEN /\ is_expr_some(e.kids[1])
              /\ \A k \in 2..Len(e.kids) : is_expr_not_ret_none(e.kids[k])
    ELSE IF e.node \in {"Block", "Closure"} THEN is_block_some(e)
    ELSE IF e.node = "If"
         THEN is_block_some(e.kids[1]) /\ Len(e.kids) = 2 /\ is_expr_some(e.kids[2])
    ELSE IF e.node = "Ret" THEN e.kids # <<>> /\ is_expr_some(e.kids[1])
    ELSE FALSE

\* is_option: the type of the receiver is the enum core::option::Option.
is_option(recv) == match_type(recv.ty, "Option")

\* ExprMethodCall(ident, _, args); args[0] is the receiver.
ExprMethodCall(ident, args) == [node |-> "MethodCall", ident |-> ident, args |-> args]
Receiver(ty) == [node |-> "Recv", ty |-> ty]

\* Options::check_expr: the diagnostics it emits for an expression.
OptionsDiags(e) ==
    IF e.node = "MethodCall"
    THEN IF e.ident = "and_then" /\ Len(e.args) = 2
            /\ is_option(e.args[1]) /\ is_expr_some(e.args[2])
         THEN <<[lint |-> "OPTION_AND_THEN_SOME"]>>
         ELSE <<>>
    ELSE <<>>

Options_check_expr ==
    /\ pc = "check_expr"
    /\ diags' = diags \o OptionsDiags(expr)
    /\ pc' = "done"
    /\ UNCHANGED <<expr, visitor, iter, visitor2, runs>>

\* The expressions the arguments of and_then are built from.
PathSome   == ExprPath(<<"Some">>)
PathNone   == ExprPath(<<"None">>)
PathFn     == ExprPath(<<"to_none">>)
CallSome   == ExprCall(PathSome, <<ExprOther>>)
CallFn     == ExprCall(PathFn, <<ExprOther>>)
RetSome    == ExprRet(<<CallSome>>)
RetNone    == ExprRet(<<PathNone>>)
RetNothing == ExprRet(<<>>)

\* The values of a branch, and the blocks of the branches of an if.
BranchValues == {CallSome, PathNone, RetSome, RetNone}
BranchBlocks ==
    {ExprBlock(stmts, <<v>>) : stmts \in {<<>>, <<StmtSemi(RetNone)>>}, v \in {CallSome, PathNone}}
    \cup {ExprBlock(<<StmtSemi(r)>>, <<>>) : r \in {RetSome, RetNone}}
IfExprs ==
    {ExprIf(b, <<>>) : b \in BranchBlocks}
    \cup {ExprIf(b, <<c>>) : b \in BranchBlocks, c \in BranchBlocks}

\* The statements of the block of a closure.
BlockStmts ==
    {StmtSemi(CallFn), StmtSemi(RetNone), StmtSemi(RetSome), StmtSemi(RetNothing), StmtMac, StmtItem,
     StmtDecl(<<>>), StmtDecl(<<ExprOther>>), StmtDecl(<<RetNone>>),
     StmtExpr(ExprIf(ExprBlock(<<StmtSemi(RetNone)>>, <<>>), <<>>)),
     StmtExpr(ExprIf(ExprBlock(<<StmtSemi(CallFn)>>, <<>>), <<>>))}

\* A block without a tail expression ends in a statement that diverges.
Diverges(stmt) == stmt.stmt = "Mac" \/ (stmt.stmt = "Semi" /\ stmt.init[1].node = "Ret")

\* The tails of the block of a closure.
BlockTails == {<<v>> : v \in BranchValues \cup IfExprs} \cup {<<>>}

\* The second argument of the method call.
SimpleArgs ==
    {PathSome, ExprPath(<<"Option", "Some">>), ExprPath(<<"my", "Some">>), PathNone, PathFn,
     ExprPath(<<"Ok">>), ExprOther, CallSome, CallFn, ExprCall(PathSome, <<RetNone>>)}
    \cup IfExprs

\* The receiver types.
ReceiverTypes == {TyAdt("Option"), TyAdt("Result"), TyAdt("Vec")}

\* The pass has no fields; the sink is empty; the walker is at a method call.
InitOptions ==
    /\ \E ident \in {"and_then", "map"} : \E ty \in ReceiverTypes : \E extra \in BOOLEAN :
       \/ \E arg \in SimpleArgs :
            expr = ExprMethodCall(ident, <<Receiver(ty), arg>> \o (IF extra THEN <<ExprOther>> ELSE <<>>))
       \/ \E n \in 0..MaxStmts : \E stmts \in [1..n -> BlockStmts] : \E tail \in BlockTails :
          \E closure \in BOOLEAN :
            /\ tail = <<>> => (n > 0 /\ Diverges(stmts[n]))
            /\ ~extra
            /\ expr = ExprMethodCall(ident,
                        <<Receiver(ty),
                          IF closure THEN ExprClosure(stmts, tail) ELSE ExprBlock(stmts, tail)>>)
    /\ pc = "check_expr"
    /\ diags = <<>>
    /\ NoVisitors

NextOptions == Options_check_expr

SpecOptions == InitOptions /\ [][NextOptions]_vars

(***************************************************************************)
(* Claims about OPTION_AND_THEN_SOME                                       *)
(***************************************************************************)

\* The expression is Option's `Some`, or a call of it.
IsSomePath(e) == e.node = "Path" /\ e.path \in {<<"Some">>, <<"Option", "Some">>}
IsSome(e) == IsSomePath(e) \/ (e.node = "Call" /\ IsSomePath(e.kids[1]))

\* Every result position of the expression is Some(_).
RECURSIVE ResultSome(_)
ResultSome(e) ==
    IF e.node \in {"Path", "Call"} THEN IsSome(e)
    ELSE IF e.node \in {"Block", "Closure"} THEN e.kids = <<>> \/ ResultSome(e.kids[1])
    ELSE IF e.node = "If" THEN Len(e.kids) = 2 /\ ResultSome(e.kids[1]) /\ ResultSome(e.kids[2])
    ELSE e.node = "Ret"

\* Every `return` expression inside the expression returns Some(_).
RECURSIVE AllReturnsSome(_)
AllReturnsSome(e) ==
    /\ e.node = "Ret" => (e.kids # <<>> /\ ResultSome(e.kids[1]))
    /\ \A k \in 1..Len(e.kids) : AllReturnsSome(e.kids[k])
    /\ \A k \in 1..Len(e.stmts) : \A j \in 1..Len(e.stmts[k].init) : AllReturnsSome(e.stmts[k].init[j])

GuaranteedSome(e) == ResultSome(e) /\ AllReturnsSome(e)

\* C11: `recv.and_then(arg)` is reported if and only if recv has type Option
\* and every result position and every `return` of arg is Some(_).
C11_FiresIffGuaranteedSome ==
    (pc = "done" /\ expr.ident = "and_then" /\ Len(expr.args) = 2) =>
        (HasLint("OPTION_AND_THEN_SOME")
            <=> (expr.args[1].ty = TyAdt("Option") /\ GuaranteedSome(expr.args[2])))
\* ---------------------------------------------------------------------------
\* WHILE_LET_LOOP and EMPTY_LOOP (loops.rs)
\* ---------------------------------------------------------------------------

\* ExprBreak(label): path = the label, <<>> without one.
ExprBreak(label) == AstExpr("Break", label, <<>>, <<>>)

\* An arm of a match: the number of its patterns, its guard, its body.
LoopArm(pats, guard, body) == [pats |-> pats, guard |-> guard, body |-> body]

\* ExprMatch(matchexpr, arms, source)
ExprMatch(source, arms) == [node |-> "Match", source |-> source, arms |-> arms]

\* ExprLoop(block, _), and whether its span comes from an external macro.
ExprLoop(block, external_macro) ==
    [node |-> "Loop", block |-> block, external_macro |-> external_macro]

\* extract_expr_from_first_stmt: the initializer of a leading `let`.
extract_expr_from_first_stmt(block) ==
    IF block.stmts = <<>> THEN <<>>
    ELSE IF block.stmts[1].stmt = "DeclLocal" THEN block.stmts[1].init
    ELSE <<>>

\* extract_first_expr: the trailing expression of a block without statements,
\* or the leading expression statement of a block without trailing expression.
extract_first_expr(block) ==
    IF block.kids # <<>> /\ block.stmts = <<>> THEN block.kids
    ELSE IF block.kids = <<>> /\ block.stmts # <<>>
    THEN IF block.stmts[1].stmt \in {"Expr", "Semi"} THEN block.stmts[1].init ELSE <<>>
    ELSE <<>>

\* is_break_expr
RECURSIVE is_break_expr(_)
is_break_expr(e) ==
    IF e.node = "Break" THEN e.path = <<>>
    ELSE IF e.node = "Block"
    THEN LET subexpr == extract_first_expr(e)
         IN  subexpr # <<>> /\ is_break_expr(subexpr[1])
    ELSE FALSE

\* The loop part of Pass::check_expr: the diagnostics it emits for a loop.
LoopDiags(e) ==
    IF e.node = "Loop"
    THEN LET block == e.block
             empty == IF block.stmts = <<>> /\ block.kids = <<>>
                      THEN <<[lint |-> "EMPTY_LOOP"]>> ELSE <<>>
             inner_stmt_expr == extract_expr_from_first_stmt(block)
             inner == IF inner_stmt_expr # <<>> THEN inner_stmt_expr
                      ELSE extract_first_expr(block)
         IN  IF /\ inner # <<>>
                /\ inner[1].node = "Match"
                /\ inner[1].source \in {"Normal", "IfLetDesugar"}
                /\ Len(inner[1].arms) = 2
                /\ inner[1].arms[1].pats = 1 /\ ~inner[1].arms[1].guard
                /\ inner[1].arms[2].pats = 1 /\ ~inner[1].arms[2].guard
                /\ is_break_expr(inner[1].arms[2].body)
                /\ ~e.external_macro
             THEN empty \o <<[lint |-> "WHILE_LET_LOOP"]>>
             ELSE empty
    ELSE <<>>

Loop_check_expr ==
    /\ pc = "check_expr"
    /\ diags' = diags \o LoopDiags(expr)
    /\ pc' = "done"
    /\ UNCHANGED <<expr, visitor, iter, visitor2, runs>>

\* The bodies of the second arm: `break`, `break 'a`, blocks around a break,
\* blocks in which something precedes or follows the break, anything else.
BareBreak == ExprBreak(<<>>)
ArmBodies ==
    {BareBreak, ExprBreak(<<"'a">>), ExprOther,
     ExprBlock(<<>>, <<BareBreak>>),
     ExprBlock(<<StmtSemi(BareBreak)>>, <<>>),
     ExprBlock(<<>>, <<ExprBlock(<<>>, <<BareBreak>>)>>),
     ExprBlock(<<StmtSemi(BareBreak), StmtSemi(ExprOther)>>, <<>>),
     ExprBlock(<<StmtSemi(BareBreak)>>, <<ExprOther>>),
     ExprBlock(<<StmtSemi(ExprOther)>>, <<BareBreak>>),
     ExprBlock(<<>>, <<ExprBreak(<<"'a">>)>>)}

\* The first expressions of a loop body: matches of one, two and three arms,
\* and an expression that is no match.
FirstExprs ==
    {ExprMatch(source, <<LoopArm(p1, g1, ExprOther), LoopArm(p2, g2, body)>>) :
        source \in {"Normal", "IfLetDesugar", "ForLoopDesugar"},
        p1 \in 1..2, g1 \in BOOLEAN, p2 \in 1..2, g2 \in BOOLEAN, body \in ArmBodies}
    \cup {ExprMatch("Normal", <<LoopArm(1, FALSE, BareBreak)>>),
          ExprMatch("Normal", <<LoopArm(1, FALSE, ExprOther), LoopArm(1, FALSE, BareBreak),
                                LoopArm(1, FALSE, BareBreak)>>),
          ExprOther}

\* The leading statements of a loop body built on an expression.
FirstStmts(e) ==
    {<<>>, <<StmtDecl(<<e>>)>>, <<StmtDecl(<<>>)>>, <<StmtItem>>, <<StmtExpr(e)>>, <<StmtSemi(e)>>,
     <<StmtSemi(ExprOther), StmtSemi(e)>>}

\* The pass has no fields; the sink is empty; the walker is at a loop whose
\* body is: leading statements, further statements, a trailing expression.
InitLoop ==
    /\ \E e \in FirstExprs : \E first \in FirstStmts(e) :
       \E rest \in {<<>>, <<StmtSemi(ExprOther)>>} : \E tail \in {<<>>, <<ExprOther>>, <<e>>} :
       \E external_macro \in BOOLEAN :
            /\ first = <<>> => rest = <<>>
            /\ expr = ExprLoop(ExprBlock(first \o rest, tail), external_macro)
    /\ pc = "check_expr"
    /\ diags = <<>>
    /\ NoVisitors

NextLoop == Loop_check_expr

SpecLoop == InitLoop /\ [][NextLoop]_vars

\* ---------------------------------------------------------------------------
\* Claims about WHILE_LET_LOOP
\* ---------------------------------------------------------------------------

\* The first statement or expression of a loop body: the initializer of a
\* leading `let`, a leading expression statement, or the sole trailing
\* expression.
FirstOfBody(block) ==
    IF block.stmts # <<>>
    THEN IF block.stmts[1].stmt \in {"DeclLocal", "Expr", "Semi"} THEN block.stmts[1].init ELSE <<>>
    ELSE block.kids

\* A bare unlabeled break, or a block that holds nothing but one.
RECURSIVE OnlyBreak(_)
OnlyBreak(e) ==
    \/ e.node = "Break" /\ e.path = <<>>
    \/ /\ e.node = "Block"
       /\ \/ (e.stmts = <<>> /\ e.kids # <<>> /\ OnlyBreak(e.kids[1]))
          \/ (Len(e.stmts) = 1 /\ e.kids = <<>> /\ e.stmts[1].stmt \in {"Expr", "Semi"}
                /\ OnlyBreak(e.stmts[1].init[1]))

\* A match that an `if let .. else { break }` can stand for.
BreakingMatch(m) ==
    /\ m.node = "Match" /\ m.source \in {"Normal", "IfLetDesugar"}
    /\ Len(m.arms) = 2
    /\ \A k \in 1..2 : m.arms[k].pats = 1 /\ ~m.arms[k].guard
    /\ OnlyBreak(m.arms[2].body)

\* C21: a loop outside external macros gets WHILE_LET_LOOP if and only if the
\* first statement or expression of its body is a two-arm match (Normal or
\* if-let) with single-pattern unguarded arms whose second arm is a bare
\* unlabeled break, whatever follows that first statement.
C21_FiresIffFirstIsBreakingMatch ==
    (pc = "done" /\ expr.node = "Loop" /\ ~expr.external_macro) =>
        (HasLint("WHILE_LET_LOOP") <=>
            (FirstOfBody(expr.block) # <<>> /\ BreakingMatch(FirstOfBody(expr.block)[1])))

\* ---------------------------------------------------------------------------
\* SINGLE_MATCH, SINGLE_MATCH_ELSE and MATCH_BOOL (matches.rs)
\* ---------------------------------------------------------------------------

\* Patterns: `_`, a literal, `Path(inner..)`, a by-value binding, a path, any
\* other pattern; wild_inner: no sub-pattern of a tuple struct is non-wild.
MPat(kind, name, wild_inner) == [kind |-> kind, name |-> name, wild_inner |-> wild_inner]
MPatWild == MPat("Wild", "_", TRUE)
MPatLit(lit) == MPat("Lit", lit, TRUE)
MPatTupleStruct(path, wild_inner) == MPat("TupleStruct", path, wild_inner)
MPatBinding(ident) == MPat("Binding", ident, TRUE)
MPatPath(path) == MPat("Path", path, TRUE)

\* The snippet of a pattern.
MPatText(pat) ==
    IF pat.kind = "TupleStruct"
    THEN IF pat.wild_inner THEN <<pat.name, "(_)">> ELSE <<pat.name, "(x)">>
    ELSE <<pat.name>>

\* Arm bodies: ExprTup, ExprBlock or another expression; empty: a tuple
\* without elements, a block without statements and trailing expression.
MBody(node, empty, text) == [node |-> node, empty |-> empty, text |-> text]
BodyUnit       == MBody("Tup", TRUE, "()")
BodyTuple      == MBody("Tup", FALSE, "(a, b)")
BodyEmptyBlock == MBody("Block", TRUE, "{}")
BodyBlock      == MBody("Block", FALSE, "{ f(); }")
BodyCall       == MBody("Call", FALSE, "g()")

\* The type bool (ty::TyBool).
TyBool == [ref |-> FALSE, path |-> "bool", to |-> <<>>]

\* Arm { pats, guard, body }
MArm(pats, guard, body) == [pats |-> pats, guard |-> guard, body |-> body]

\* ExprMatch(ex, arms, source): the type and the snippet of ex, the lint
\* level of MATCH_BOOL at the node, whether the span is from an external macro.
MatchNode(source, external_macro, ty, level, arms) ==
    [node |-> "Match", source |-> source, external_macro |-> external_macro,
     ty |-> ty, ex |-> "c", match_bool_level |-> level, arms |-> arms]

\* is_unit_expr with every tuple and every block taken for unit.
is_unit_expr_any(e) == e.node \in {"Tup", "Block"}

\* is_unit_expr
is_unit_expr(e) ==
    IF e.node = "Tup" /\ e.empty THEN TRUE
    ELSE IF e.node = "Block" /\ e.empty THEN TRUE
    ELSE FALSE

\* expr_block(cx, expr, None, ".."): braces around what is no block.
expr_block(e) == IF e.node = "Block" THEN <<e.text>> ELSE <<"{ ", e.text, " }">>

\* The suggestion of the single-match lints; els: Option<&Expr>.
IfLetSugg(e, els) ==
    <<"if let ">> \o MPatText(e.arms[1].pats[1]) \o <<" = ", e.ex, " ">>
        \o expr_block(e.arms[1].body)
        \o (IF els = <<>> THEN <<>> ELSE <<" else ">> \o expr_block(els[1]))

\* The diagnostic both single-match checks emit.
SingleMatchLint(e, els) ==
    <<[lint |-> IF els # <<>> THEN "SINGLE_MATCH_ELSE" ELSE "SINGLE_MATCH",
       sugg |-> <<IfLetSugg(e, els)>>]>>

\* check_single_match_single_pattern
check_single_match_single_pattern(e, els) ==
    IF e.arms[2].pats[1].kind = "Wild" THEN SingleMatchLint(e, els) ELSE <<>>

\* The enums check_single_match_opt_like knows: (type, pattern path).
OptLikeCandidates ==
    {<<"Cow", "Borrowed">>, <<"Cow", "Cow::Borrowed">>, <<"Cow", "Cow::Owned">>, <<"Cow", "Owned">>,
     <<"Option", "None">>, <<"Result", "Err">>, <<"Result", "Ok">>}

\* check_single_match_opt_like
check_single_match_opt_like(e, els) ==
    LET pat == e.arms[2].pats[1]
    IN  IF pat.kind = "TupleStruct" /\ ~pat.wild_inner THEN <<>>
        ELSE IF pat.kind \notin {"TupleStruct", "Binding", "Path"} THEN <<>>
        ELSE IF \E c \in OptLikeCandidates : pat.name = c[2] /\ match_type(e.ty, c[1])
        THEN SingleMatchLint(e, els)
        ELSE <<>>

\* check_single_match that takes any non-unit body of the second arm for the
\* else branch.
check_single_match_any_else(e) ==
    IF /\ Len(e.arms) = 2
       /\ Len(e.arms[1].pats) = 1 /\ ~e.arms[1].guard
       /\ Len(e.arms[2].pats) = 1 /\ ~e.arms[2].guard
    THEN LET body == e.arms[2].body
             els  == IF is_unit_expr(body) THEN <<>> ELSE <<body>>
         IN  IF e.ty # TyBool \/ e.match_bool_level = "Allow"
             THEN check_single_match_single_pattern(e, els)
                    \o check_single_match_opt_like(e, els)
             ELSE <<>>
    ELSE <<>>

\* check_single_match
check_single_match(e) ==
    IF /\ Len(e.arms) = 2
       /\ Len(e.arms[1].pats) = 1 /\ ~e.arms[1].guard
       /\ Len(e.arms[2].pats) = 1 /\ ~e.arms[2].guard
    THEN LET body == e.arms[2].body
             els  == IF is_unit_expr(body) THEN <<>> ELSE <<body>>
         IN  IF ~is_unit_expr(body) /\ body.node # "Block" THEN <<>>
             ELSE IF e.ty # TyBool \/ e.match_bool_level = "Allow"
             THEN check_single_match_single_pattern(e, els)
                    \o check_single_match_opt_like(e, els)
             ELSE <<>>
    ELSE <<>>

\* The pair (true_expr, false_expr) of check_match_bool, <<>> for None.
BoolArmExprs(e) ==
    IF Len(e.arms) = 2 /\ Len(e.arms[1].pats) = 1
    THEN LET pat == e.arms[1].pats[1]
         IN  IF pat.kind = "Lit" /\ pat.name = "true" THEN <<e.arms[1].body, e.arms[2].body>>
             ELSE IF pat.kind = "Lit" /\ pat.name = "false" THEN <<e.arms[2].body, e.arms[1].body>>
             ELSE <<>>
    ELSE <<>>

\* The suggestion of check_match_bool that never negates the condition.
MatchBoolSuggPlain(e, true_expr, false_expr) ==
    IF ~is_unit_expr(true_expr) /\ ~is_unit_expr(false_expr)
    THEN <<<<"if ", e.ex, " ">> \o expr_block(true_expr) \o <<" else ">> \o expr_block(false_expr)>>
    ELSE IF ~is_unit_expr(true_expr)
    THEN <<<<"if ", e.ex, " ">> \o expr_block(true_expr)>>
    ELSE IF ~is_unit_expr(false_expr)
    THEN <<<<"if ", e.ex, " ">> \o expr_block(false_expr)>>
    ELSE <<>>

\* The suggestion of check_match_bool, <<>> for None; `!test` is the
\* negation of the snippet of the scrutinee.
MatchBoolSugg(e, true_expr, false_expr) ==
    IF ~is_unit_expr(true_expr) /\ ~is_unit_expr(false_expr)
    THEN <<<<"if ", e.ex, " ">> \o expr_block(true_expr) \o <<" else ">> \o expr_block(false_expr)>>
    ELSE IF ~is_unit_expr(true_expr)
    THEN <<<<"if ", e.ex, " ">> \o expr_block(true_expr)>>
    ELSE IF ~is_unit_expr(false_expr)
    THEN <<<<"if ", "!", e.ex, " ">> \o expr_block(false_expr)>>
    ELSE <<>>

\* check_match_bool
check_match_bool(e) ==
    IF e.ty = TyBool
    THEN LET exprs == BoolArmExprs(e)
         IN  <<[lint |-> "MATCH_BOOL",
                sugg |-> IF exprs = <<>> THEN <<>>
                         ELSE MatchBoolSugg(e, exprs[1], exprs[2])]>>
    ELSE <<>>

\* MatchPass::check_expr on a match whose scrutinee is not integral and whose
\* patterns are no references: check_overlapping_arms and
\* check_match_ref_pats emit nothing.
MatchPassDiags(e) ==
    IF e.external_macro THEN <<>>
    ELSE IF e.node = "Match" /\ e.source = "Normal"
    THEN check_single_match(e) \o check_match_bool(e)
    ELSE <<>>

MatchPass_check_expr ==
    /\ pc = "check_expr"
    /\ diags' = diags \o MatchPassDiags(expr)
    /\ pc' = "done"
    /\ UNCHANGED <<expr, visitor, iter, visitor2, runs>>

\* The patterns and the bodies of the arms.
MPats ==
    {MPatWild, MPatLit("true"), MPatLit("false"), MPatPath("None"), MPatBinding("x"),
     MPatTupleStruct("Ok", TRUE), MPatTupleStruct("Some", FALSE)}
MPatSeqs == {<<p>> : p \in MPats} \cup {<<MPatLit("true"), MPatLit("false")>>}
SecondBodies == {BodyUnit, BodyTuple, BodyEmptyBlock, BodyBlock, BodyCall}
FirstBodies == {BodyUnit, BodyBlock, BodyCall}

\* Where the match stands: its source and whether it is from an external macro.
MatchContexts == {<<"Normal", FALSE>>, <<"Normal", TRUE>>, <<"IfLetDesugar", FALSE>>}

\* The pass has no fields; the sink is empty; the walker is at a match of
\* one, two or three arms.
InitMatchPass ==
    /\ \E ctx \in MatchContexts : \E ty \in {TyBool, TyAdt("Option"), TyAdt("Result")} :
       \E level \in {"Warn", "Allow"} :
       \E p1 \in MPatSeqs : \E g1 \in BOOLEAN : \E b1 \in FirstBodies :
        \/ \E p2 \in MPatSeqs : \E g2 \in BOOLEAN : \E b2 \in SecondBodies :
            expr = MatchNode(ctx[1], ctx[2], ty, level, <<MArm(p1, g1, b1), MArm(p2, g2, b2)>>)
        \/ /\ g1 = FALSE /\ b1 = BodyBlock
           /\ \/ expr = MatchNode(ctx[1], ctx[2], ty, level, <<MArm(p1, g1, b1)>>)
              \/ expr = MatchNode(ctx[1], ctx[2], ty, level,
                            <<MArm(p1, g1, b1), MArm(p1, g1, b1), MArm(<<MPatWild>>, FALSE, BodyUnit)>>)
    /\ pc = "check_expr"
    /\ diags = <<>>
    /\ NoVisitors

NextMatchPass == MatchPass_check_expr

SpecMatchPass == InitMatchPass /\ [][NextMatchPass]_vars

\* ---------------------------------------------------------------------------
\* Claims about SINGLE_MATCH, SINGLE_MATCH_ELSE and MATCH_BOOL
\* ---------------------------------------------------------------------------

\* The pass looks at the node: a match written as a match, outside external
\* macros.
NormalMatch == pc = "done" /\ expr.node = "Match" /\ expr.source = "Normal" /\ ~expr.external_macro

\* Two arms, each with a single pattern and no guard.
TwoPlainArms(e) ==
    /\ Len(e.arms) = 2
    /\ \A k \in 1..2 : Len(e.arms[k].pats) = 1 /\ ~e.arms[k].guard

\* The body is unit-valued: `()` or an empty block.
UnitBody(b) == b \in {BodyUnit, BodyEmptyBlock}

\* The single-match findings.
SingleFindings == SelectSeq(diags, LAMBDA d : d.lint \in {"SINGLE_MATCH", "SINGLE_MATCH_ELSE"})

\* The one finding is the given lint and its `if let` has the else branch or not.
SuggestsIfLet(lint, with_else) ==
    /\ Len(SingleFindings) = 1
    /\ SingleFindings[1].lint = lint
    /\ SingleFindings[1].sugg[1][1] = "if let "
    /\ with_else <=> (\E k \in 1..Len(SingleFindings[1].sugg[1]) : SingleFindings[1].sugg[1][k] = " else ")

BoolShape(e) ==
    /\ TwoPlainArms(e)
    /\ {e.arms[1].pats[1], e.arms[2].pats[1]} = {MPatLit("true"), MPatLit("false")}
TrueBody(e)  == IF e.arms[1].pats[1] = MPatLit("true") THEN e.arms[1].body ELSE e.arms[2].body
FalseBody(e) == IF e.arms[1].pats[1] = MPatLit("true") THEN e.arms[2].body ELSE e.arms[1].body

\* The text of a body as a block.
AsBlock(b) == IF b.node = "Block" THEN <<b.text>> ELSE <<"{ ", b.text, " }">>

\* C25: a normal match on a bool scrutinee gets exactly one MATCH_BOOL
\* finding; on the true/false shape its rewrite is `if c A else B` when both
\* bodies are non-unit, `if c A` when only the true body is, `if !c B` when
\* only the false body is, and there is none when both are unit.
C25_BoolMatchRewrite ==
    (NormalMatch /\ expr.ty = TyBool) =>
        LET found == SelectSeq(diags, LAMBDA d : d.lint = "MATCH_BOOL")
            A == TrueBody(expr)
            B == FalseBody(expr)
        IN  /\ Len(found) = 1
            /\ BoolShape(expr) =>
                found[1].sugg =
                    IF ~UnitBody(A) /\ ~UnitBody(B)
                    THEN <<<<"if ", "c", " ">> \o AsBlock(A) \o <<" else ">> \o AsBlock(B)>>
                    ELSE IF ~UnitBody(A) THEN <<<<"if ", "c", " ">> \o AsBlock(A)>>
                    ELSE IF ~UnitBody(B) THEN <<<<"if ", "!", "c", " ">> \o AsBlock(B)>>
                    ELSE <<>>

\* Witness of C25: `match c { false => { f(); }, true => () }` gets the
\* rewrite `if !c { f(); }`.
C25_Witness ==
    /\ NormalMatch /\ expr.ty = TyBool
    /\ expr.arms = <<MArm(<<MPatLit("false")>>, FALSE, BodyBlock),
                     MArm(<<MPatLit("true")>>, FALSE, BodyUnit)>>
    /\ \E k \in 1..Len(diags) :
        diags[k] = [lint |-> "MATCH_BOOL", sugg |-> <<<<"if ", "!", "c", " ", "{ f(); }">>>>]

\* ---------------------------------------------------------------------------
\* WHILE_LET_ON_ITERATOR (loops.rs)
\* ---------------------------------------------------------------------------

\* What the def_map resolves an expression to.
DefLocal(node_id) == [kind |-> "Local", node_id |-> node_id]
DefStatic == [kind |-> "Static", node_id |-> 0]
DefNone == [kind |-> "None", node_id |-> 0]

\* An expression of the walk: its node, its id and its entry in the def_map.
WalkExpr(node, id, def) == [node |-> node, id |-> id, def |-> def]

\* The id of the receiver of the scrutinee; every other expression has id 0.
IterExprId == 1

\* var_def_id: the declaration of a path that resolves to a local.
var_def_id(e) == IF e.def.kind = "Local" THEN <<e.def.node_id>> ELSE <<>>

\* get_enclosing_block: the block or fn body enclosing a declaration.
get_enclosing_block(e, node_id) ==
    IF e.enclosing \in {"NodeBlock", "ItemFn"} THEN <<e.block>> ELSE <<>>

\* VarUsedAfterLoopVisitor as is_iterator_used_after_while_let creates it.
NewVarUsedAfterLoopVisitor(def_id, iter_expr) ==
    [def_id |-> def_id, iter_expr_id |-> iter_expr.id,
     past_while_let |-> FALSE, var_used_after_while_let |-> FALSE]

\* VarUsedAfterLoopVisitor::visit_expr counting the references before the
\* receiver as well.
VarUsed_visit_expr_anywhere(v, e) ==
    IF <<v.def_id>> = var_def_id(e) /\ v.iter_expr_id # e.id
    THEN [v EXCEPT !.var_used_after_while_let = TRUE]
    ELSE v

\* VarUsedAfterLoopVisitor::visit_expr.
VarUsed_visit_expr(v, e) ==
    IF v.past_while_let
    THEN IF <<v.def_id>> = var_def_id(e)
         THEN [v EXCEPT !.var_used_after_while_let = TRUE]
         ELSE v
    ELSE IF v.iter_expr_id = e.id
         THEN [v EXCEPT !.past_while_let = TRUE]
         ELSE v

\* walk_block: visit_expr on the expressions of the block in source order.
RECURSIVE VarUsed_walk_block(_, _)
VarUsed_walk_block(v, exprs) ==
    IF exprs = <<>> THEN v
    ELSE VarUsed_walk_block(VarUsed_visit_expr(v, Head(exprs)), Tail(exprs))

\* is_iterator_used_after_while_let that takes a receiver without a
\* declaration for used.
is_iterator_used_or_not_local(e, iter_expr) ==
    LET def_id == var_def_id(iter_expr)
    IN  IF def_id = <<>> THEN TRUE
        ELSE LET enclosing_block == get_enclosing_block(e, def_id[1])
                 v == NewVarUsedAfterLoopVisitor(def_id[1], iter_expr)
             IN  IF enclosing_block = <<>> THEN FALSE
                 ELSE VarUsed_walk_block(v, enclosing_block[1]).var_used_after_while_let

is_iterator_used_after_while_let(e, iter_expr) ==
    LET def_id == var_def_id(iter_expr)
    IN  IF def_id = <<>> THEN FALSE
        ELSE LET enclosing_block == get_enclosing_block(e, def_id[1])
                 v == NewVarUsedAfterLoopVisitor(def_id[1], iter_expr)
             IN  IF enclosing_block = <<>> THEN FALSE
                 ELSE VarUsed_walk_block(v, enclosing_block[1]).var_used_after_while_let

\* match_trait_method(cx, match_expr, &paths::ITERATOR).
match_trait_method(e, path) == e.trait = <<path>>

\* The last segment of a path, if it has one.
LastSegment(path) == IF path = <<>> THEN <<>> ELSE <<path[Len(path)]>>

\* The while-let part of Pass::check_expr.
WhileLetDiags(e) ==
    IF /\ e.node = "Match" /\ e.source = "WhileLetDesugar"
       /\ e.pat.kind = "TupleStruct" /\ e.match_expr.node = "MethodCall"
       /\ LastSegment(e.pat.path) # <<>>
       /\ e.match_expr.method_name = "next"
       /\ match_trait_method(e.match_expr, "Iterator")
       /\ LastSegment(e.pat.path) = <<"Some">>
       /\ ~is_iterator_used_after_while_let(e, e.match_expr.method_args[1])
    THEN <<[lint |-> "WHILE_LET_ON_ITERATOR"]>>
    ELSE <<>>

WhileLet_check_expr ==
    /\ pc = "check_expr"
    /\ diags' = diags \o WhileLetDiags(expr)
    /\ pc' = "done"
    /\ UNCHANGED <<expr, visitor, iter, visitor2, runs>>

\* The pattern of the first arm.
PatTupleStruct(path) == [kind |-> "TupleStruct", path |-> path]
PatOther == [kind |-> "Ident", path |-> <<>>]
WhileLetPats ==
    {PatTupleStruct(<<"Some">>), PatTupleStruct(<<"Option", "Some">>), PatTupleStruct(<<"Ok">>), PatOther}

\* The scrutinee: a method call on a receiver, or something else.
ScrutMethodCall(method_name, trait, recv) ==
    [node |-> "MethodCall", method_name |-> method_name, trait |-> trait, method_args |-> <<recv>>]
ScrutOther(recv) ==
    [node |-> "Call", method_name |-> "", trait |-> <<>>, method_args |-> <<recv>>]
Scrutinees(recv) ==
    {ScrutMethodCall("next", <<"Iterator">>, recv), ScrutMethodCall("next", <<>>, recv),
     ScrutMethodCall("next_back", <<"DoubleEndedIterator">>, recv), ScrutOther(recv)}

\* The receivers: the local `it`, a static, a field `s.it` of a local, a call.
RecvLocal == WalkExpr("Path", IterExprId, DefLocal(1))
Receivers ==
    {RecvLocal, WalkExpr("Path", IterExprId, DefStatic),
     WalkExpr("Field", IterExprId, DefNone), WalkExpr("Call", IterExprId, DefNone)}

\* The other expressions of the block: `it`, another local, anything else.
RefIt == WalkExpr("Path", 0, DefLocal(1))
OtherExprs == {RefIt, WalkExpr("Path", 0, DefLocal(2)), WalkExpr("Lit", 0, DefNone)}

\* A while-let (or a match written by hand) with the block its receiver is
\* declared in: what comes before the loop, the receiver, the loop body, and
\* what comes after the loop.
WhileLet(source, pat, match_expr, enclosing, before, body, after) ==
    [node |-> "Match", source |-> source, pat |-> pat, match_expr |-> match_expr,
     enclosing |-> enclosing, before |-> before, body |-> body, after |-> after,
     block |-> before \o match_expr.method_args \o body \o after]

\* The pass has no fields; the sink is empty; the walker is at a match.
InitWhileLet ==
    /\ \E source \in {"WhileLetDesugar", "Normal"} : \E pat \in WhileLetPats :
       \E recv \in Receivers : \E match_expr \in Scrutinees(recv) :
       \E enclosing \in {"NodeBlock", "ItemFn", "ImplItem"} :
       \E before \in {<<>>, <<RefIt>>} :
       \E n \in 0..MaxWalk : \E body \in [1..n -> OtherExprs] :
       \E m \in 0..MaxWalk : \E after \in [1..m -> OtherExprs] :
            /\ n + m <= MaxWalk
            /\ recv # RecvLocal => enclosing = "NodeBlock"
            /\ expr = WhileLet(source, pat, match_expr, enclosing, before, body, after)
    /\ pc = "check_expr"
    /\ diags = <<>>
    /\ NoVisitors

NextWhileLet == WhileLet_check_expr

SpecWhileLet == InitWhileLet /\ [][NextWhileLet]_vars

\* ---------------------------------------------------------------------------
\* Claims about WHILE_LET_ON_ITERATOR
\* ---------------------------------------------------------------------------

\* A while-let on `recv.next()` of an Iterator with the constructor `Some`.
IsWhileLetOnNext(e) ==
    /\ e.source = "WhileLetDesugar"
    /\ e.pat.kind = "TupleStruct" /\ e.pat.path[Len(e.pat.path)] = "Some"
    /\ e.match_expr.node = "MethodCall" /\ e.match_expr.method_name = "next"
    /\ e.match_expr.trait = <<"Iterator">>

\* The receiver is a bare local variable.
RecvIsLocal(e) == e.match_expr.method_args[1].node = "Path" /\ e.match_expr.method_args[1].def.kind = "Local"

\* A sequence of expressions refers to the receiver's variable.
RefersToRecv(e, exprs) ==
    \E k \in 1..Len(exprs) : exprs[k].def = e.match_expr.method_args[1].def

\* C20 as stated: the lint fires only on a receiver that is a local variable
\* not referenced after the loop, and a variable used after the loop
\* suppresses it.
C20_AsStated ==
    (pc = "done" /\ IsWhileLetOnNext(expr)) =>
        /\ HasLint("WHILE_LET_ON_ITERATOR") => (RecvIsLocal(expr) /\ ~RefersToRecv(expr, expr.after))
        /\ (RecvIsLocal(expr) /\ RefersToRecv(expr, expr.after)) => ~HasLint("WHILE_LET_ON_ITERATOR")

\* C20: on a while-let over `recv.next()` (Iterator, constructor `Some`) the
\* lint is suppressed exactly when the receiver is a local variable declared
\* in a block or fn body and referenced again in the loop body or after the
\* loop; any other receiver is reported. Nothing else gets the lint.
C20_SuppressedIffLocalUsedLater ==
    pc = "done" =>
        (HasLint("WHILE_LET_ON_ITERATOR") <=>
            /\ IsWhileLetOnNext(expr)
            /\ ~(/\ RecvIsLocal(expr)
                 /\ expr.enclosing \in {"NodeBlock", "ItemFn"}
                 /\ RefersToRecv(expr, expr.body \o expr.after)))

\* Witness of C20: `while let Some(x) = s.it.next() { .. }` is reported.
C20_Witness ==
    /\ pc = "done"
    /\ IsWhileLetOnNext(expr)
    /\ expr.match_expr.method_args[1].node = "Field"
    /\ HasLint("WHILE_LET_ON_ITERATOR")

\* C30: for a receiver that is a local variable declared in a block or fn
\* body, the finding is suppressed exactly when the variable is referred to
\* after the receiver in the walk of that block: in the body of the while-let
\* or after the loop; a reference before the loop does not count.
C30_BodyReferenceSuppresses ==
    (/\ pc = "done" /\ expr.node = "Match" /\ IsWhileLetOnNext(expr) /\ RecvIsLocal(expr)
     /\ expr.enclosing \in {"NodeBlock", "ItemFn"}) =>
        /\ RefersToRecv(expr, expr.body) => diags = <<>>
        /\ RefersToRecv(expr, expr.after) => diags = <<>>
        /\ ~RefersToRecv(expr, expr.body \o expr.after) => HasLint("WHILE_LET_ON_ITERATOR")

\* Witness of C30: `while let Some(x) = it.next() { it; }` with nothing after
\* the loop is not reported.
C30_Witness ==
    /\ pc = "done" /\ expr.node = "Match" /\ IsWhileLetOnNext(expr) /\ RecvIsLocal(expr)
    /\ expr.enclosing = "NodeBlock"
    /\ expr.before = <<>> /\ expr.body = <<RefIt>> /\ expr.after = <<>>
    /\ diags = <<>>



(***************************************************************************)
(* Claims about MATCH_OVERLAPPING_ARM                                      *)
(***************************************************************************)

\* The patterns the detector is meant to collect: range or literal patterns of
\* guard-free arms, both endpoints folding to integrals; Lo/Hi are the closed
\* range [Lo, Hi] such a pattern denotes.
Collected(e) ==
    {s \in {<<i, j>> : i \in 1..Len(e.arms), j \in 1..2} :
        /\ s[2] <= Len(e.arms[s[1]].pats)
        /\ ~e.arms[s[1]].guard
        /\ e.arms[s[1]].pats[s[2]].kind \in {"Range", "Lit"}
        /\ e.arms[s[1]].pats[s[2]].lhs.fold = "Integral"
        /\ e.arms[s[1]].pats[s[2]].rhs.fold = "Integral"}

Lo(e, s) == e.arms[s[1]].pats[s[2]].lhs.v
Hi(e, s) == e.arms[s[1]].pats[s[2]].rhs.v

ShareInteger(e, s, t) ==
    \E n \in Values : Lo(e, s) <= n /\ n <= Hi(e, s) /\ Lo(e, t) <= n /\ n <= Hi(e, t)

\* C1: on an integral scrutinee with at least two arms, an overlap is reported
\* if and only if two different collected closed ranges share an integer
\* (ranges touching at an inclusive boundary included).
C1_OverlapIffShared ==
    (pc = "done" /\ expr.node = "ExprMatch" /\ expr.integral /\ Len(expr.arms) >= 2) =>
        (HasLint("MATCH_OVERLAPPING_ARM") <=>
            \E s, t \in Collected(expr) : s # t /\ ShareInteger(expr, s, t))

\* Witness of C1: `0...1` and `1...2`, which only touch at 1, are reported.
C1_Witness ==
    /\ pc = "done"
    /\ expr = MatchExpr(TRUE, <<Arm(<<PatRange(IntegralVal(0), IntegralVal(1))>>, FALSE),
                               Arm(<<PatRange(IntegralVal(1), IntegralVal(2))>>, FALSE)>>)
    /\ HasLint("MATCH_OVERLAPPING_ARM")

\* C9: a report is made only for an integral scrutinee with at least two arms,
\* and both reported patterns are collected ones: never a pattern of a guarded
\* arm, nor one with an endpoint that does not fold to an integral.
C9_OnlyCollectedReported ==
    pc = "done" /\ expr.node = "ExprMatch" =>
        \A k \in 1..Len(diags) :
            diags[k].lint = "MATCH_OVERLAPPING_ARM" =>
                /\ expr.integral /\ Len(expr.arms) >= 2
                /\ diags[k].span \in Collected(expr)
                /\ diags[k].note \in Collected(expr)

\* Witness of C9: a guarded arm `0...MaxVal if g` and an arm with a non-constant
\* endpoint stand beside two overlapping collected arms, which are the ones reported.
C9_Witness ==
    /\ pc = "done" /\ expr.node = "ExprMatch" /\ Len(expr.arms) = 3
    /\ expr.arms[1].guard
    /\ expr.arms[2] = Arm(<<PatLit(IntegralVal(0))>>, FALSE)
    /\ expr.arms[3] = Arm(<<PatLit(IntegralVal(0)), PatLit(IntegralVal(0))>>, FALSE)
    /\ HasLint("MATCH_OVERLAPPING_ARM")

\* The ranges the sweep is run on, and its events in the order they are pushed.
SweptRanges(e) == type_ranges(all_ranges(e.arms))
PushedEvents(e) == PushValues(SweptRanges(e), 1)

\* An adjacent pair of events that does not signal an overlap: an End followed
\* by a Start of another value, or the Start and the End of one range.
NonOverlapping(a, b) ==
    \/ a.kind = "End" /\ b.kind = "Start" /\ a.value # b.value
    \/ a.kind = "Start" /\ b.kind = "End" /\ a.r = b.r

\* C18: every adjacent pair the sweep comes to is passed over exactly if it is
\* an End followed by a Start of another value or the Start and End of one
\* range; any other pair (Start-End of two ranges, End-Start of equal values,
\* Start-Start, End-End) ends the sweep with an overlap.
C18_OnlyEndStartPasses ==
    (pc = "done" /\ expr.integral /\ Len(expr.arms) >= 2) =>
        LET ranges == SweptRanges(expr)
            values == SortValues(PushedEvents(expr))
        IN  /\ \A i \in 1..(Len(values) - 1) :
                (\A j \in 1..(i - 1) : NonOverlapping(values[j], values[j + 1]))
                    => (SweepPair(ranges, values[i], values[i + 1]) = NoPair
                            <=> NonOverlapping(values[i], values[i + 1]))
            /\ HasLint("MATCH_OVERLAPPING_ARM")
                    <=> \E i \in 1..(Len(values) - 1) : ~NonOverlapping(values[i], values[i + 1])

\* Witness of C18: the literals `1` and `1`: Start-End of the first, then its
\* End followed by the Start of the second at the same value.
C18_Witness ==
    /\ pc = "done"
    /\ expr = MatchExpr(TRUE, <<Arm(<<PatLit(IntegralVal(1))>>, FALSE),
                               Arm(<<PatLit(IntegralVal(1))>>, FALSE)>>)
    /\ diags = <<[lint |-> "MATCH_OVERLAPPING_ARM", span |-> <<1, 1>>, note |-> <<2, 1>>]>>

\* The place in the value-sorted stable order of the k-th pushed event.
Rank(events, k) ==
    1 + Cardinality({j \in 1..Len(events) :
            \/ events[j].value < events[k].value
            \/ events[j].value = events[k].value /\ j < k})

\* The pushed events in value-sorted stable order.
StableOrder(events) ==
    [i \in 1..Len(events) |-> events[CHOOSE k \in 1..Len(events) : Rank(events, k) = i]]

\* The offending adjacent pairs of the sorted events.
Offending(sorted) ==
    {i \in 1..(Len(sorted) - 1) : ~NonOverlapping(sorted[i], sorted[i + 1])}

\* C19: a match gets at most one MATCH_OVERLAPPING_ARM diagnostic, and it names
\* the two ranges of the first offending adjacent pair of the events in
\* value-sorted stable order.
C19_FirstPairOnly ==
    (pc = "done" /\ expr.integral /\ Len(expr.arms) >= 2) =>
        LET ranges == SweptRanges(expr)
            sorted == StableOrder(PushedEvents(expr))
        IN  /\ Len(diags) <= 1
            /\ Offending(sorted) = {} => diags = <<>>
            /\ Offending(sorted) # {} =>
                LET first == CHOOSE i \in Offending(sorted) : \A j \in Offending(sorted) : i <= j
                IN  diags = <<[lint |-> "MATCH_OVERLAPPING_ARM",
                               span |-> ranges[sorted[first].r].span,
                               note |-> ranges[sorted[first + 1].r].span]>>

\* Witness of C19: `0...1`, `1...2`, `0...2` overlap pairwise; the one
\* diagnostic names the first and the third.
C19_Witness ==
    /\ pc = "done"
    /\ expr = MatchExpr(TRUE, <<Arm(<<PatRange(IntegralVal(0), IntegralVal(1))>>, FALSE),
                               Arm(<<PatRange(IntegralVal(1), IntegralVal(2))>>, FALSE),
                               Arm(<<PatRange(IntegralVal(0), IntegralVal(2))>>, FALSE)>>)
    /\ \A s, t \in Collected(expr) : ShareInteger(expr, s, t)
    /\ diags = <<[lint |-> "MATCH_OVERLAPPING_ARM", span |-> <<1, 1>>, note |-> <<3, 1>>]>>

\* A range is well-formed: its start does not exceed its end.
WellFormedRange(r) == r.node[1] <= r.node[2]

\* Two ranges share a value.
ShareValue(r, q) ==
    \E n \in Values : r.node[1] <= n /\ n <= r.node[2] /\ q.node[1] <= n /\ n <= q.node[2]

\* C28: a pair returned by overlapping() consists of two different ranges of
\* the slice, and two well-formed ranges that are returned share a value.
C28_PairReallyOverlaps ==
    (pc = "done" /\ expr.node = "overlapping" /\ diags[1].found # NoPair) =>
        LET ra == diags[1].found[1]
            rb == diags[1].found[2]
            In(r) == \E i \in 1..Len(expr.ranges) : expr.ranges[i] = r
        IN  /\ In(ra) /\ In(rb)
            /\ ra.span # rb.span
            /\ (WellFormedRange(ra) /\ WellFormedRange(rb)) => ShareValue(ra, rb)

\* Witness of C28: of `0...0`, `1...2`, `2...2` the second and the third are
\* returned.
C28_Witness ==
    /\ pc = "done" /\ expr.node = "overlapping"
    /\ expr.ranges = <<SpannedRange(1, 0, 0), SpannedRange(2, 1, 2), SpannedRange(3, 2, 2)>>
    /\ diags[1].found # NoPair
    /\ {diags[1].found[1].span, diags[1].found[2].span} = {<<2, 1>>, <<3, 1>>}

(***************************************************************************)
(* utils/mod.rs: LimitStack                                                *)
(***************************************************************************)

MaxAttrs == 3       \* at most MaxAttrs attributes on the items that are open at once
MaxNest  == 2       \* at most MaxNest items are open at once

\* ast::Attribute: a doc comment, or a `key = "value"` meta item.
AttrDoc == [is_sugared_doc |-> TRUE, kind |-> "NameValue", key |-> "doc", value |-> "text"]
AttrNameValue(key, value) == [is_sugared_doc |-> FALSE, kind |-> "NameValue", key |-> key, value |-> value]
AttrWord(key) == [is_sugared_doc |-> FALSE, kind |-> "Word", key |-> key, value |-> ""]

\* <u64 as FromStr>::from_str on the strings of the inputs.
FromStr(s) ==
    CASE s = "0" -> [ok |-> TRUE, value |-> 0]
      [] s = "1" -> [ok |-> TRUE, value |-> 1]
      [] s = "2" -> [ok |-> TRUE, value |-> 2]
      [] s = "3" -> [ok |-> TRUE, value |-> 3]
      [] OTHER   -> [ok |-> FALSE, value |-> 0]

\* The state the loop of parse_attrs works on: the stack the closure has
\* borrowed, the errors given to the session, whether the closure panicked.
AttrRun(stack, errs, panicked) == [stack |-> stack, errs |-> errs, panicked |-> panicked]

\* The closure of push_attrs: |val| stack.push(val)
PushClosure(st, val) == [st EXCEPT !.stack = Append(@, val)]

\* The closure of pop_attrs: |val| assert_eq!(stack.pop(), Some(val))
PopClosure(st, val) ==
    IF st.stack = <<>> THEN [st EXCEPT !.panicked = TRUE]
    ELSE [st EXCEPT !.stack = SubSeq(@, 1, Len(@) - 1),
                    !.panicked = (st.stack[Len(st.stack)] # val)]

\* One round of the loop of parse_attrs on attrs[k] with the closure `mode`.
ParseAttr(attr, name, mode, st) ==
    IF attr.is_sugared_doc THEN st
    ELSE IF attr.kind = "NameValue" /\ attr.key = name
    THEN IF FromStr(attr.value).ok
         THEN IF mode = "push" THEN PushClosure(st, FromStr(attr.value).value)
              ELSE PopClosure(st, FromStr(attr.value).value)
         ELSE [st EXCEPT !.errs = Append(@, [lint |-> "error", msg |-> "not a number"])]
    ELSE st

\* parse_attrs: the attributes in order, until the closure panics.
RECURSIVE parse_attrs(_, _, _, _, _)
parse_attrs(attrs, name, mode, k, st) ==
    IF k > Len(attrs) \/ st.panicked THEN st
    ELSE parse_attrs(attrs, name, mode, k + 1, ParseAttr(attrs[k], name, mode, st))

\* The attributes of the open items.
RECURSIVE OpenAttrs(_)
OpenAttrs(open) == IF open = <<>> THEN 0 ELSE Len(open[1]) + OpenAttrs(Tail(open))

\* The attributes an item can carry.
Attrs == {AttrDoc, AttrWord("inline"), AttrNameValue("other", "1")}
            \cup {AttrNameValue("limit", v) : v \in {"1", "2", "x"}}

\* LimitStack::push_attrs, called on entering an item with the attributes attrs.
LimitStack_push_attrs ==
    /\ pc = "run"
    /\ Len(expr.open) < MaxNest
    /\ Len(diags) < MaxAttrs
    /\ \E n \in 0..(MaxAttrs - OpenAttrs(expr.open)) : \E attrs \in [1..n -> Attrs] :
        LET st == parse_attrs(attrs, expr.name, "push", 1, AttrRun(visitor.stack, diags, FALSE))
        IN  /\ visitor' = [visitor EXCEPT !.stack = st.stack]
            /\ diags' = st.errs
            /\ expr' = [expr EXCEPT !.open = Append(@, attrs)]
    /\ UNCHANGED <<pc, iter, visitor2, runs>>

\* LimitStack::pop_attrs, called on leaving the innermost open item with the
\* attributes of that item.
LimitStack_pop_attrs ==
    /\ pc = "run"
    /\ expr.open # <<>>
    /\ LET attrs == expr.open[Len(expr.open)]
           st == parse_attrs(attrs, expr.name, "pop", 1, AttrRun(visitor.stack, diags, FALSE))
       IN  /\ visitor' = [visitor EXCEPT !.stack = st.stack]
           /\ diags' = st.errs
           /\ expr' = [expr EXCEPT !.open = SubSeq(@, 1, Len(@) - 1)]
           /\ pc' = IF st.panicked THEN "panic" ELSE "run"
    /\ UNCHANGED <<iter, visitor2, runs>>

\* LimitStack::limit: the caller gets the top of the stack.
LimitStack_limit ==
    /\ pc = "run"
    /\ IF visitor.stack = <<>>
       THEN pc' = "panic" /\ runs' = runs
       ELSE pc' = pc /\ runs' = <<visitor.stack[Len(visitor.stack)]>>
    /\ UNCHANGED <<expr, diags, visitor, iter, visitor2>>

\* Drop for LimitStack, at the end of the crate: assert_eq!(self.stack.len(), 1)
LimitStack_drop ==
    /\ pc = "run"
    /\ expr.open = <<>>
    /\ pc' = IF Len(visitor.stack) = 1 THEN "dropped" ELSE "panic"
    /\ UNCHANGED <<expr, diags, visitor, iter, visitor2, runs>>

\* LimitStack::new(limit), no item open.
InitLimitStack ==
    /\ \E limit \in Values : \E name \in {"limit", "other"} :
        /\ expr = [node |-> "Crate", name |-> name, limit |-> limit, open |-> <<>>]
        /\ visitor = [stack |-> <<limit>>]
    /\ pc = "run"
    /\ diags = <<>>
    /\ iter = {} /\ visitor2 = NoInitializeVisitor /\ runs = <<>>

NextLimitStack ==
    \/ LimitStack_push_attrs
    \/ LimitStack_pop_attrs
    \/ LimitStack_limit
    \/ LimitStack_drop

SpecLimitStack == InitLimitStack /\ [][NextLimitStack]_vars

\* ---------------------------------------------------------------------------
\* Claims about LimitStack
\* ---------------------------------------------------------------------------

\* C26: push_attrs followed by pop_attrs with the same list restores the
\* stack without an assertion failure, whatever the matching attributes of
\* the list: no assertion fails, the stack is never empty, and with no item
\* open the stack holds the initial limit alone.
C26_PushPopRestores ==
    /\ pc # "panic"
    /\ visitor.stack # <<>>
    /\ expr.open = <<>> => visitor.stack = <<expr.limit>>


====
